---- MODULE Spec2Model ----
(***************************************************************************)
(* A model of the dispatch engine of FogCreek/victor (src/dispatch.go):     *)
(* the command registry, the bot-name detection, the two-phase command      *)
(* matching, the quote-aware tokenizer and the reader/writer lock around    *)
(* them; and of the robot's receive loop (src/robot.go): Receive, Run and    *)
(* Stop over the incoming and the stop channel.                             *)
(*                                                                          *)
(* Strings are sequences of one-character strings (<<"h","i">> is "hi").    *)
(* Only ASCII text is modelled, so a byte index and a rune index agree.     *)
(* Handlers are opaque: a user handler is a positive integer, the nil       *)
(* handler is NilHandler and the closure EnableHelpCommand builds is        *)
(* HelpHandler.  Every invocation of a handler is recorded in the frame of  *)
(* the ProcessMessage call that made it.                                    *)
(***************************************************************************)
EXTENDS Integers, Sequences, FiniteSets, TLC

VARIABLES
    heap,            \* the HandlerDoc objects allocated so far (*HandlerDoc = index)
    commands,        \* dispatch.commands: lower-cased name -> *HandlerDoc
    regexpCommands,  \* dispatch.regexpCommands: sequence of *HandlerDoc
    commandNames,    \* dispatch.commandNames
    patterns,        \* dispatch.patterns: sequence of handlerPair
    defaultHandler,  \* dispatch.defaultHandler
    wOwner,          \* handlerMutex: the thread holding or awaiting the write lock (0: none)
    readers,         \* handlerMutex: read locks held, per thread
    pc,              \* position of each thread
    frame,           \* arguments and locals of each thread's current call
    nregs,           \* registration calls made so far
    robot,           \* the robot struct: name, and the channels incoming and stop
    run              \* the goroutines around the channels: the receive loop, the
                     \* transport's Receive calls, the Stop call, the messages spawned

vars == <<heap, commands, regexpCommands, commandNames, patterns, defaultHandler,
          wOwner, readers, pc, frame, nregs, robot, run>>

\* The dispatcher and its callers.
dispatchVars == <<heap, commands, regexpCommands, commandNames, patterns, defaultHandler,
                  wOwner, readers, pc, frame, nregs>>

registry == <<heap, commands, regexpCommands, commandNames, patterns, defaultHandler>>

--------------------------------------------------------------------------------
(* Bounds *)

\* Registration calls in one behaviour.
MaxRegs == 3

\* The threads that call into the dispatcher.
Threads == {1}

\* Registration calls in one behaviour of the concurrent specification.
MaxConcRegs == 2

\* The threads of the concurrent specification.
ConcThreads == {1, 2}

\* Receive calls in one behaviour of the robot specification.
MaxReceives == 3

\* The goroutines of the transport that call Receive.
Transport == {1, 2}

--------------------------------------------------------------------------------
(* Characters and strings *)

UpperChars == <<"A","B","C","D","E","F","G","H","I","J","K","L","M",
                "N","O","P","Q","R","S","T","U","V","W","X","Y","Z">>
LowerChars == <<"a","b","c","d","e","f","g","h","i","j","k","l","m",
                "n","o","p","q","r","s","t","u","v","w","x","y","z">>

\* strings.ToLower on one (ASCII) character.
ToLowerChar(c) ==
    IF \E i \in 1..Len(UpperChars) : UpperChars[i] = c
    THEN LowerChars[CHOOSE i \in 1..Len(UpperChars) : UpperChars[i] = c]
    ELSE c

\* strings.ToLower.
ToLower(s) == [i \in 1..Len(s) |-> ToLowerChar(s[i])]

\* unicode.IsSpace, on the ASCII characters a TLA+ string can hold.
IsSpace(c) == c \in {" ", "\t", "\n", "\r", "\f"}

\* The class \s of a Go regular expression: [\t\n\f\r ].
IsRegexpSpace(c) == c \in {" ", "\t", "\n", "\r", "\f"}

\* unicode.In(r, quoteCharacters).
IsQuote(c) == c = "\""

\* The Go slice expression s[from:to] with 0-based bounds.
Slice(s, from, to) == SubSeq(s, from + 1, to)

--------------------------------------------------------------------------------
(* Tokenizer *)

RECURSIVE parseFieldsFrom(_, _, _, _, _)
\* The loop of parseFields from 0-based index i on, with the loop's locals.
parseFieldsFrom(input, i, fields, skipSpaces, fieldStart) ==
    IF i >= Len(input)
    THEN IF fieldStart # -1
         THEN Append(fields, Slice(input, fieldStart, Len(input)))
         ELSE fields
    ELSE LET r == input[i + 1] IN
         IF IsQuote(r)
         THEN IF fieldStart = -1
              THEN parseFieldsFrom(input, i + 1, fields, FALSE, i + 1)
              ELSE parseFieldsFrom(input, i + 1,
                                   Append(fields, Slice(input, fieldStart, i)), TRUE, -1)
         ELSE IF IsSpace(r) /\ skipSpaces
              THEN IF fieldStart # -1
                   THEN parseFieldsFrom(input, i + 1,
                                        Append(fields, Slice(input, fieldStart, i)),
                                        skipSpaces, -1)
                   ELSE parseFieldsFrom(input, i + 1, fields, skipSpaces, fieldStart)
              ELSE IF fieldStart = -1
                   THEN parseFieldsFrom(input, i + 1, fields, skipSpaces, i)
                   ELSE parseFieldsFrom(input, i + 1, fields, skipSpaces, fieldStart)

\* parseFields with a field open from the start of the input.
parseFields_FieldOpen(input) == parseFieldsFrom(input, 0, <<>>, TRUE, 0)

parseFields(input) == parseFieldsFrom(input, 0, <<>>, TRUE, -1)

--------------------------------------------------------------------------------
(* Regular expressions *)

(* A *regexp.Regexp is modelled for the patterns                            *)
(*     (?i)? ^? literal $?                                                  *)
(* as a record: lit the literal, ci the (?i) flag, bol and eol the anchors. *)
(* NilRegexp is the nil pointer.                                            *)
NilRegexp == [nil |-> TRUE, lit |-> <<>>, ci |-> FALSE, bol |-> FALSE, eol |-> FALSE]

Regexp(lit, ci, bol, eol) == [nil |-> FALSE, lit |-> lit, ci |-> ci, bol |-> bol, eol |-> eol]

\* The literal of exp occurs in s at 0-based offset i.
MatchesAt(exp, s, i) ==
    /\ i + Len(exp.lit) <= Len(s)
    /\ \A j \in 1..Len(exp.lit) :
          IF exp.ci
          THEN ToLowerChar(s[i + j]) = ToLowerChar(exp.lit[j])
          ELSE s[i + j] = exp.lit[j]

\* (*regexp.Regexp).MatchString: an unanchored search unless the pattern anchors it.
MatchString(exp, s) ==
    \E i \in 0..Len(s) :
        /\ MatchesAt(exp, s, i)
        /\ exp.bol => i = 0
        /\ exp.eol => i + Len(exp.lit) = Len(s)

\* regexp.Compile on a pattern string, for the patterns
\*     (?i)? ^? literal $?
\* whose literal holds no metacharacter but, possibly, a '(' that no ')' closes
\* (error: missing closing parenthesis): the pair <<compiled, the *regexp.Regexp>>.
\* regexp.MustCompile panics when compiled is FALSE.
regexpCompile(pattern) ==
    LET ci   == Len(pattern) >= 4 /\ SubSeq(pattern, 1, 4) = <<"(", "?", "i", ")">>
        p1   == IF ci THEN SubSeq(pattern, 5, Len(pattern)) ELSE pattern
        bol  == p1 # <<>> /\ p1[1] = "^"
        p2   == IF bol THEN Tail(p1) ELSE p1
        eol  == p2 # <<>> /\ p2[Len(p2)] = "$"
        lit  == IF eol THEN SubSeq(p2, 1, Len(p2) - 1) ELSE p2
    IN  IF \E i \in 1..Len(lit) : lit[i] = "(" /\ \A j \in (i + 1)..Len(lit) : lit[j] # ")"
        THEN <<FALSE, NilRegexp>>
        ELSE <<TRUE, Regexp(lit, ci, bol, eol)>>

--------------------------------------------------------------------------------
(* String order *)

\* The ASCII characters of the model in ascending byte order.
AsciiOrder == <<"\t", "\n", "\f", "\r", " ", "\"", ",",
                "0","1","2","3","4","5","6","7","8","9", ":", "@",
                "A","B","C","D","E","F","G","H","I","J","K","L","M",
                "N","O","P","Q","R","S","T","U","V","W","X","Y","Z",
                "a","b","c","d","e","f","g","h","i","j","k","l","m",
                "n","o","p","q","r","s","t","u","v","w","x","y","z">>

Ord(c) == CHOOSE i \in 1..Len(AsciiOrder) : AsciiOrder[i] = c

RECURSIVE StrLess(_, _)
\* Go's a < b on strings: bytewise lexicographic order.
StrLess(a, b) ==
    IF b = <<>> THEN FALSE
    ELSE IF a = <<>> THEN TRUE
    ELSE IF Ord(Head(a)) # Ord(Head(b)) THEN Ord(Head(a)) < Ord(Head(b))
    ELSE StrLess(Tail(a), Tail(b))

RECURSIVE SearchFrom(_, _, _, _)
\* The loop of sort.Search for the predicate array[h] >= x, on 0-based i and j.
SearchFrom(array, x, i, j) ==
    IF i >= j THEN i
    ELSE LET h == (i + j) \div 2 IN
         IF StrLess(array[h + 1], x)
         THEN SearchFrom(array, x, h + 1, j)
         ELSE SearchFrom(array, x, i, h)

\* sort.SearchStrings: the 0-based position found by binary search.
\* A search that always answers the end of the array.
SearchStrings_End(array, x) == Len(array)

SearchStrings(array, x) == SearchFrom(array, x, 0, Len(array))

\* appendInOrderWithoutRepeats inserting the string also when the array holds it.
appendInOrderWithoutRepeats_Repeats(array, toAdd) ==
    LET pos == SearchStrings(array, toAdd) IN
    Slice(array, 0, pos) \o <<toAdd>> \o Slice(array, pos, Len(array))

appendInOrderWithoutRepeats(array, toAdd) ==
    LET pos == SearchStrings(array, toAdd) IN
    IF pos = Len(array) \/ array[pos + 1] # toAdd
    THEN Slice(array, 0, pos) \o <<toAdd>> \o Slice(array, pos, Len(array))
    ELSE array

--------------------------------------------------------------------------------
(* Handlers and handler documents *)

\* The nil HandlerFunc.
NilHandler == 0

\* The closure over defaultHelpHandler that EnableHelpCommand installs.
HelpHandler == -1

\* helpCommandName
helpCommandName == <<"h","e","l","p">>

\* A HandlerDoc value.
HandlerDoc(handler, name, description, usage, hidden) ==
    [CmdHandler |-> handler, CmdName |-> name, CmdDescription |-> description,
     CmdUsage |-> usage, CmdIsHidden |-> hidden,
     cmdRegexp |-> NilRegexp, cmdAliasNames |-> <<>>]

IsRegexpCommand(d) == ~d.cmdRegexp.nil

\* AddAliasName without its search for the name: it always reports the name as added.
AddAliasName_NoCheck(d, aliasName) ==
    <<TRUE, appendInOrderWithoutRepeats(d.cmdAliasNames, aliasName)>>

\* AddAliasName reporting success without adding the name.
AddAliasName_NoAdd(d, aliasName) == <<TRUE, d.cmdAliasNames>>

\* HandlerDoc.AddAliasName: the pair <<added, the alias names afterwards>>.
AddAliasName(d, aliasName) ==
    LET pos == SearchStrings(d.cmdAliasNames, aliasName) IN
    IF Len(d.cmdAliasNames) > 0 /\ pos < Len(d.cmdAliasNames)
          /\ d.cmdAliasNames[pos + 1] = aliasName
    THEN <<FALSE, d.cmdAliasNames>>
    ELSE <<TRUE, appendInOrderWithoutRepeats(d.cmdAliasNames, aliasName)>>

\* defaultHelpHandlerDoc with CmdHandler set by EnableHelpCommand.
defaultHelpHandlerDoc ==
    HandlerDoc(HelpHandler, helpCommandName,
               <<"V","i","e","w">>, << <<>>, <<"c","o","m","m","a","n","d">> >>, FALSE)

--------------------------------------------------------------------------------
(* Bot name detection *)

\* Config.Name of the robot (robot.New).
BotName == <<"b","o","t">>

RECURSIVE SkipRegexpSpace(_, _)
\* The 0-based offset after a greedy \s* that starts at offset i.
SkipRegexpSpace(text, i) ==
    IF i < Len(text) /\ IsRegexpSpace(text[i + 1])
    THEN SkipRegexpSpace(text, i + 1)
    ELSE i

\* The bot name pattern without its separator part: '@' and the name only.
botNameMatchLen_NameOnly(text) ==
    LET n == Len(BotName) IN
    IF /\ Len(text) >= n + 1
       /\ text[1] = "@"
       /\ \A j \in 1..n : ToLowerChar(text[1 + j]) = ToLowerChar(BotName[j])
    THEN n + 1
    ELSE 0

\* The bot name pattern with a word boundary after the name: `(?i)^@%s\b\s*[:,]?\s*`.
botNameMatchLen_WordBoundary(text) ==
    LET n == Len(BotName)
        isWord(c) == \/ \E i \in 1..Len(UpperChars) : c \in {UpperChars[i], LowerChars[i]}
                     \/ c \in {"0","1","2","3","4","5","6","7","8","9","_"}
    IN
    IF /\ Len(text) >= n + 1
       /\ text[1] = "@"
       /\ \A j \in 1..n : ToLowerChar(text[1 + j]) = ToLowerChar(BotName[j])
       /\ ~(Len(text) > n + 1 /\ isWord(text[n + 2]))
    THEN LET a == SkipRegexpSpace(text, n + 1)
             b == IF a < Len(text) /\ text[a + 1] \in {":", ","} THEN a + 1 ELSE a
         IN  SkipRegexpSpace(text, b)
    ELSE 0

\* The bot name pattern with a separator required between the name and the rest:
\* no match when the name is followed by text without whitespace, ':' or ','.
botNameMatchLen_NeedsSeparator(text) ==
    LET n == Len(BotName) IN
    IF /\ Len(text) >= n + 1
       /\ text[1] = "@"
       /\ \A j \in 1..n : ToLowerChar(text[1 + j]) = ToLowerChar(BotName[j])
    THEN LET a == SkipRegexpSpace(text, n + 1)
             b == IF a < Len(text) /\ text[a + 1] \in {":", ","} THEN a + 1 ELSE a
             e == SkipRegexpSpace(text, b)
         IN  IF e = n + 1 /\ e < Len(text) THEN 0 ELSE e
    ELSE 0

\* len(d.botNameRegex.FindString(text)) for botNameRegexFormat `(?i)^@%s\s*[:,]?\s*`:
\* 0 when the pattern does not match.
botNameMatchLen(text) ==
    LET n == Len(BotName) IN
    IF /\ Len(text) >= n + 1
       /\ text[1] = "@"
       /\ \A j \in 1..n : ToLowerChar(text[1 + j]) = ToLowerChar(BotName[j])
    THEN LET a == SkipRegexpSpace(text, n + 1)
             b == IF a < Len(text) /\ text[a + 1] \in {":", ","} THEN a + 1 ELSE a
         IN  SkipRegexpSpace(text, b)
    ELSE 0

--------------------------------------------------------------------------------
(* Inputs *)

S_thanks  == <<"t","h","a","n","k","s">>
S_Thanks  == <<"T","h","a","n","k","s">>
S_thx     == <<"t","h","x">>
S_Thx     == <<"T","h","x">>
S_pattern == <<"p","a","t","t","e","r","n">>
S_mock    == <<"m","o","c","k">>

Digits == <<"0","1","2","3","4","5","6","7","8","9">>

\* The document a caller passes for its k-th registration: handler k, a
\* description and two usage strings.
UserDoc(k, name, hidden) ==
    HandlerDoc(k, name, <<"d", Digits[(k % 10) + 1]>>, << <<>>, <<"x">> >>, hidden)

\* (?i)hank and ^th
R_hank == Regexp(<<"h","a","n","k">>, TRUE, FALSE, FALSE)
R_th   == Regexp(<<"t","h">>, FALSE, TRUE, FALSE)

\* <<name, hidden>>
CommandInputs == {<<S_Thanks, FALSE>>, <<S_thx, FALSE>>, <<S_thx, TRUE>>}

CommandRegexps == {R_hank, R_th, NilRegexp}

AliasInputs == {<<S_thanks, S_thx>>, <<S_thanks, S_Thx>>, <<S_Thanks, S_thanks>>}

AliasRegexpInputs == {<<S_thanks, S_thx, R_th>>, <<S_thanks, <<>>, R_hank>>,
                      <<S_thanks, S_thx, NilRegexp>>}

PatternRegexps == {R_hank, R_th, NilRegexp}

\* The pattern strings "^th" and "(th": the second does not compile.
P_th  == <<"^","t","h">>
P_bad == <<"(","t","h">>

PatternStrings == {P_th, P_bad}

T_empty      == <<>>
T_thanks_you == <<"t","h","a","n","k","s"," ","y","o","u">>
T_quoted     == <<"T","H","A","N","K","S"," ","\"","a"," ","b","\""," ","c">>
T_you_thanks == <<"y","o","u"," ","t","h","a","n","k","s">>
T_at         == <<"@","b","o","t">>
T_at_thanks  == <<"@","b","o","t"," ","t","h","a","n","k","s"," ","y","o","u">>
T_at_colon   == <<"@","B","o","t",":"," ","t","h","x">>
T_at_comma   == <<"@","b","o","t"," ",",","\t","T","h","x"," ","y","o","u">>
T_at_joined  == <<"@","b","o","t","t","h","x"," ","y","o","u">>
T_bare_name  == <<"b","o","t"," ","t","h","a","n","k","s">>
T_robot      == <<"r","o","b","o","t"," ","t","h","a","n","k","s">>
T_help       == <<"h","e","l","p">>
T_help_thx   == <<"h","e","l","p"," ","T","h","x">>
T_help_thanks == <<"h","e","l","p"," ","t","h","a","n","k","s">>

\* A chat.BaseMessage value.
Message(text, direct) == [MsgText |-> text, MsgIsDirect |-> direct]

Messages == {
    Message(T_empty, TRUE),
    Message(T_thanks_you, TRUE),   Message(T_thanks_you, FALSE),
    Message(T_quoted, TRUE),
    Message(T_you_thanks, TRUE),   Message(T_you_thanks, FALSE),
    Message(T_at, FALSE),
    Message(T_at_thanks, FALSE),   Message(T_at_thanks, TRUE),
    Message(T_at_colon, FALSE),
    Message(T_at_comma, FALSE),
    Message(T_at_joined, FALSE),
    Message(T_bare_name, FALSE),   Message(T_bare_name, TRUE),
    Message(T_robot, FALSE),
    Message(T_help, TRUE),
    Message(T_help_thx, TRUE),
    Message(T_help_thanks, TRUE) }

\* The messages of the registry specification.
RegMessages == { Message(T_help, TRUE), Message(T_help_thx, TRUE),
                 Message(T_help_thanks, TRUE),
                 Message(T_at_comma, FALSE), Message(T_thanks_you, TRUE) }

\* The messages of the concurrent specification.
ConcMessages == { Message(T_help, TRUE), Message(T_thanks_you, TRUE),
                  Message(T_you_thanks, FALSE) }

--------------------------------------------------------------------------------
(* State *)

NoDoc == HandlerDoc(NilHandler, <<>>, <<>>, <<>>, FALSE)

NoMessage == Message(<<>>, FALSE)

\* The frame of a thread that is in no call.
NoFrame == [cmd |-> NoDoc, exp |-> NilRegexp, originalName |-> <<>>, aliasName |-> <<>>,
            handler |-> NilHandler, m |-> NoMessage, calls |-> <<>>, sent |-> <<>>,
            panicked |-> FALSE, snapshot |-> <<>>, input |-> <<>>, fields |-> <<>>,
            inHandler |-> FALSE, entry |-> 0]

\* A message as the receive loop sees it: the name of its user; id tells the
\* received messages apart.
RobotMessage(id, user) == [id |-> id, user |-> user]

\* New: the robot with its name and the two channels, both open and unbuffered.
NewRobot(name) == [name |-> name, incoming |-> "open", stop |-> "open"]

\* Before Run: no receive loop, no Receive call, no Stop call, nothing spawned.
NotRunning ==
    [loop |-> "none", m |-> RobotMessage(0, <<>>),
     recv |-> [p \in Transport |-> [pc |-> "idle", m |-> RobotMessage(0, <<>>)]],
     stopper |-> "idle", spawned |-> <<>>, nrecv |-> 0]

\* The robot and its goroutines take no step.
RobotIdle == UNCHANGED <<robot, run>>

\* newDispatch
Init ==
    /\ heap = <<>>
    /\ commands = <<>>
    /\ regexpCommands = <<>>
    /\ commandNames = <<>>
    /\ patterns = <<>>
    /\ defaultHandler = NilHandler
    /\ wOwner = 0
    /\ readers = [t \in Threads |-> 0]
    /\ pc = [t \in Threads |-> "idle"]
    /\ frame = [t \in Threads |-> NoFrame]
    /\ nregs = 0
    /\ robot = NewRobot(BotName)
    /\ run = NotRunning

\* An unrecovered panic or a fatal error of the runtime ends the process.
Alive == \A t \in DOMAIN pc : pc[t] # "panic"

\* d.commands[key]: the *HandlerDoc, 0 when the key is not defined.
Lookup(key) == IF key \in DOMAIN commands THEN commands[key] ELSE 0

--------------------------------------------------------------------------------
(* handlerMutex *)

\* sync.RWMutex.Lock, first half: take the writers' mutex and announce the writer;
\* from here on new readers wait.
LockAnnounce(t, from, to) ==
    /\ Alive
    /\ pc[t] = from
    /\ wOwner = 0
    /\ wOwner' = t
    /\ pc' = [pc EXCEPT ![t] = to]

\* A write lock that does not wait for the readers to leave.
WriteLocked_IgnoreReaders(t) == wOwner = t

\* sync.RWMutex.Lock, second half: the announced writer goes on when no read lock is held.
WriteLocked(t) == wOwner = t /\ \A u \in DOMAIN pc : readers[u] = 0

\* The read lock of a plain mutex: it waits for every other holder as well.
RLock_Exclusive(t, from, to) ==
    /\ Alive
    /\ pc[t] = from
    /\ wOwner = 0
    /\ \A u \in DOMAIN pc : readers[u] = 0
    /\ readers' = [readers EXCEPT ![t] = @ + 1]
    /\ pc' = [pc EXCEPT ![t] = to]

\* sync.RWMutex.RLock: waits while a writer holds or awaits the lock.
RLock(t, from, to) ==
    /\ Alive
    /\ pc[t] = from
    /\ wOwner = 0
    /\ readers' = [readers EXCEPT ![t] = @ + 1]
    /\ pc' = [pc EXCEPT ![t] = to]

\* A call begins: thread t leaves "idle" with the call's frame.
Call(t, to, fr) ==
    /\ Alive
    /\ pc[t] = "idle"
    /\ pc' = [pc EXCEPT ![t] = to]
    /\ frame' = [frame EXCEPT ![t] = fr]

\* A registration call begins.
RegCall(t, to, fr) ==
    /\ nregs < MaxRegs
    /\ nregs' = nregs + 1
    /\ Call(t, to, fr)
    /\ UNCHANGED <<registry, wOwner, readers>>

\* A call returns.
Return(t) ==
    /\ pc' = [pc EXCEPT ![t] = "idle"]
    /\ frame' = [frame EXCEPT ![t] = NoFrame]

--------------------------------------------------------------------------------
(* Registration *)

\* The body of HandleCommand without its write of d.commands.
HandleCommandEffect_NamesOnly(cmd) ==
    LET lowerName == ToLower(cmd.CmdName)
        newCmd == HandlerDoc(cmd.CmdHandler, cmd.CmdName, cmd.CmdDescription,
                             cmd.CmdUsage, cmd.CmdIsHidden)
    IN  /\ heap' = Append(heap, newCmd)
        /\ commandNames' = appendInOrderWithoutRepeats(commandNames, lowerName)
        /\ UNCHANGED <<commands, regexpCommands, patterns, defaultHandler>>

\* The body of HandleCommand keeping the command already registered under the name.
HandleCommandEffect_KeepFirst(cmd) ==
    LET lowerName == ToLower(cmd.CmdName)
        newCmd == HandlerDoc(cmd.CmdHandler, cmd.CmdName, cmd.CmdDescription,
                             cmd.CmdUsage, cmd.CmdIsHidden)
    IN  /\ heap' = Append(heap, newCmd)
        /\ commands' = IF lowerName \in DOMAIN commands THEN commands
                       ELSE (lowerName :> (Len(heap) + 1)) @@ commands
        /\ commandNames' = appendInOrderWithoutRepeats(commandNames, lowerName)
        /\ UNCHANGED <<regexpCommands, patterns, defaultHandler>>

\* The body of HandleCommand handing the alias names of the command registered
\* before under the name on to the new document.
HandleCommandEffect_KeepAliasNames(cmd) ==
    LET lowerName == ToLower(cmd.CmdName)
        newCmd == [HandlerDoc(cmd.CmdHandler, cmd.CmdName, cmd.CmdDescription,
                              cmd.CmdUsage, cmd.CmdIsHidden)
                      EXCEPT !.cmdAliasNames = IF lowerName \in DOMAIN commands
                                               THEN heap[commands[lowerName]].cmdAliasNames
                                               ELSE <<>>]
    IN  /\ heap' = Append(heap, newCmd)
        /\ commands' = (lowerName :> (Len(heap) + 1)) @@ commands
        /\ commandNames' = appendInOrderWithoutRepeats(commandNames, lowerName)
        /\ UNCHANGED <<regexpCommands, patterns, defaultHandler>>

\* The body of HandleCommand inserting the name as the caller wrote it into the
\* command names.
HandleCommandEffect_OriginalCase(cmd) ==
    LET lowerName == ToLower(cmd.CmdName)
        newCmd == HandlerDoc(cmd.CmdHandler, cmd.CmdName, cmd.CmdDescription,
                             cmd.CmdUsage, cmd.CmdIsHidden)
    IN  /\ heap' = Append(heap, newCmd)
        /\ commands' = (lowerName :> (Len(heap) + 1)) @@ commands
        /\ commandNames' = appendInOrderWithoutRepeats(commandNames, cmd.CmdName)
        /\ UNCHANGED <<regexpCommands, patterns, defaultHandler>>

\* The body of HandleCommand for the document cmd: the registry afterwards.
HandleCommandEffect(cmd) ==
    LET lowerName == ToLower(cmd.CmdName)
        newCmd == HandlerDoc(cmd.CmdHandler, cmd.CmdName, cmd.CmdDescription,
                             cmd.CmdUsage, cmd.CmdIsHidden)
    IN  /\ heap' = Append(heap, newCmd)
        /\ commands' = (lowerName :> (Len(heap) + 1)) @@ commands
        /\ commandNames' = appendInOrderWithoutRepeats(commandNames, lowerName)
        /\ UNCHANGED <<regexpCommands, patterns, defaultHandler>>

\* The body of HandleCommandRegexp for a non-nil exp: the registry afterwards.
HandleCommandRegexpEffect(exp, cmd) ==
    LET lowerName == ToLower(cmd.CmdName)
        newCmd == [HandlerDoc(cmd.CmdHandler, cmd.CmdName, cmd.CmdDescription,
                              cmd.CmdUsage, cmd.CmdIsHidden) EXCEPT !.cmdRegexp = exp]
    IN  /\ heap' = Append(heap, newCmd)
        /\ regexpCommands' = Append(regexpCommands, Len(heap) + 1)
        /\ commandNames' = appendInOrderWithoutRepeats(commandNames, lowerName)
        /\ UNCHANGED <<commands, patterns, defaultHandler>>

\* HandleCommand is called with a document.
HandleCommand_Call(t) ==
    \E in \in CommandInputs :
        RegCall(t, "hc_lock", [NoFrame EXCEPT !.cmd = UserDoc(nregs + 1, in[1], in[2])])

\* d.handlerMutex.Lock() in HandleCommand.
HandleCommand_Lock(t) ==
    /\ LockAnnounce(t, "hc_lock", "hc_body")
    /\ UNCHANGED <<registry, readers, frame, nregs>>

\* HandleCommand under the write lock, and the deferred Unlock.  A call made by a
\* handler returns into the handler, which returns to ProcessMessage.
HandleCommand_Body(t) ==
    /\ Alive
    /\ pc[t] = "hc_body"
    /\ WriteLocked(t)
    /\ HandleCommandEffect(frame[t].cmd)
    /\ wOwner' = 0
    /\ IF frame[t].inHandler
       THEN /\ pc' = [pc EXCEPT ![t] = "pm_defer"]
            /\ frame' = [frame EXCEPT ![t].inHandler = FALSE, ![t].cmd = NoDoc]
       ELSE Return(t)
    /\ UNCHANGED <<readers, nregs>>

\* HandleCommandRegexp is called with a (possibly nil) regular expression.
HandleCommandRegexp_Call(t) ==
    \E exp \in CommandRegexps :
        RegCall(t, "hcr_lock", [NoFrame EXCEPT !.exp = exp,
                                               !.cmd = UserDoc(nregs + 1, S_pattern, FALSE)])

\* d.handlerMutex.Lock() in HandleCommandRegexp.
HandleCommandRegexp_Lock(t) ==
    /\ LockAnnounce(t, "hcr_lock", "hcr_body")
    /\ UNCHANGED <<registry, readers, frame, nregs>>

\* HandleCommandRegexp under the write lock with an Unlock at the end of the body
\* in place of the deferred one: the panic leaves the lock held.
HandleCommandRegexp_Body_UnlockAtEnd(t) ==
    /\ Alive
    /\ pc[t] = "hcr_body"
    /\ WriteLocked(t)
    /\ IF frame[t].exp.nil
       THEN /\ pc' = [pc EXCEPT ![t] = "panic"]
            /\ UNCHANGED <<registry, frame, wOwner>>
       ELSE /\ HandleCommandRegexpEffect(frame[t].exp, frame[t].cmd)
            /\ wOwner' = 0
            /\ Return(t)
    /\ UNCHANGED <<readers, nregs>>

\* HandleCommandRegexp under the write lock, and the deferred Unlock; a nil
\* expression panics (log.Panicf) and nothing recovers it.
HandleCommandRegexp_Body(t) ==
    /\ Alive
    /\ pc[t] = "hcr_body"
    /\ WriteLocked(t)
    /\ wOwner' = 0
    /\ IF frame[t].exp.nil
       THEN /\ pc' = [pc EXCEPT ![t] = "panic"]
            /\ UNCHANGED <<registry, frame>>
       ELSE /\ HandleCommandRegexpEffect(frame[t].exp, frame[t].cmd)
            /\ Return(t)
    /\ UNCHANGED <<readers, nregs>>

\* HandleCommandPattern is called with a pattern string: regexp.MustCompile panics on
\* a string that does not compile, before HandleCommandRegexp is called.
HandleCommandPattern_Call(t) ==
    \E pattern \in PatternStrings :
        LET compiled == regexpCompile(pattern) IN
        RegCall(t, IF compiled[1] THEN "hcr_lock" ELSE "panic",
                [NoFrame EXCEPT !.exp = compiled[2],
                                !.cmd = UserDoc(nregs + 1, S_pattern, FALSE)])

\* HandleCommandAlias is called.
HandleCommandAlias_Call(t) ==
    \E in \in AliasInputs :
        RegCall(t, "hca_lock", [NoFrame EXCEPT !.originalName = in[1], !.aliasName = in[2]])

\* d.handlerMutex.Lock() in HandleCommandAlias.
HandleCommandAlias_Lock(t) ==
    /\ LockAnnounce(t, "hca_lock", "hca_body")
    /\ UNCHANGED <<registry, readers, frame, nregs>>

\* HandleCommandAlias with a fourth rejection, of an alias name whose lower-case form
\* is the key of a command.
HandleCommandAlias_Body_RejectTaken(t) ==
    /\ Alive
    /\ pc[t] = "hca_body"
    /\ WriteLocked(t)
    /\ LET lowerOrigName == ToLower(frame[t].originalName)
           doc == Lookup(lowerOrigName)
       IN  IF doc = 0
           THEN Return(t) /\ UNCHANGED <<registry, wOwner>>
           ELSE IF ToLower(frame[t].originalName) = ToLower(frame[t].aliasName)
           THEN Return(t) /\ UNCHANGED <<registry, wOwner>>
           ELSE IF Lookup(ToLower(frame[t].aliasName)) # 0
           THEN Return(t) /\ UNCHANGED <<registry, wOwner>>
           ELSE LET added == AddAliasName(heap[doc], frame[t].aliasName) IN
                IF ~added[1]
                THEN /\ heap' = [heap EXCEPT ![doc].cmdAliasNames = added[2]]
                     /\ Return(t)
                     /\ UNCHANGED <<commands, regexpCommands, commandNames, patterns,
                                    defaultHandler, wOwner>>
                ELSE /\ heap' = [heap EXCEPT ![doc].cmdAliasNames = added[2]]
                     /\ wOwner' = 0
                     /\ pc' = [pc EXCEPT ![t] = "hc_lock"]
                     /\ frame' = [frame EXCEPT ![t].cmd =
                               HandlerDoc(heap[doc].CmdHandler, frame[t].aliasName,
                                          heap[doc].CmdDescription, heap[doc].CmdUsage, TRUE)]
                     /\ UNCHANGED <<commands, regexpCommands, commandNames, patterns,
                                    defaultHandler>>
    /\ UNCHANGED <<readers, nregs>>

\* HandleCommandAlias under the write lock, up to its return or its Unlock.  The three
\* rejections return with the write lock still held; otherwise the alias name is
\* added to the original, the lock is released and HandleCommand is called.
HandleCommandAlias_Body(t) ==
    /\ Alive
    /\ pc[t] = "hca_body"
    /\ WriteLocked(t)
    /\ LET lowerOrigName == ToLower(frame[t].originalName)
           doc == Lookup(lowerOrigName)
       IN  IF doc = 0
           THEN Return(t) /\ UNCHANGED <<registry, wOwner>>
           ELSE IF ToLower(frame[t].originalName) = ToLower(frame[t].aliasName)
           THEN Return(t) /\ UNCHANGED <<registry, wOwner>>
           ELSE LET added == AddAliasName(heap[doc], frame[t].aliasName) IN
                IF ~added[1]
                THEN /\ heap' = [heap EXCEPT ![doc].cmdAliasNames = added[2]]
                     /\ Return(t)
                     /\ UNCHANGED <<commands, regexpCommands, commandNames, patterns,
                                    defaultHandler, wOwner>>
                ELSE /\ heap' = [heap EXCEPT ![doc].cmdAliasNames = added[2]]
                     /\ wOwner' = 0
                     /\ pc' = [pc EXCEPT ![t] = "hc_lock"]
                     /\ frame' = [frame EXCEPT ![t].cmd =
                               HandlerDoc(heap[doc].CmdHandler, frame[t].aliasName,
                                          heap[doc].CmdDescription, heap[doc].CmdUsage, TRUE)]
                     /\ UNCHANGED <<commands, regexpCommands, commandNames, patterns,
                                    defaultHandler>>
    /\ UNCHANGED <<readers, nregs>>

\* HandleCommandAliasRegexp is called.
HandleCommandAliasRegexp_Call(t) ==
    \E in \in AliasRegexpInputs :
        RegCall(t, "hcar_lock", [NoFrame EXCEPT !.originalName = in[1], !.aliasName = in[2],
                                                !.exp = in[3]])

\* d.handlerMutex.Lock() in HandleCommandAliasRegexp.
HandleCommandAliasRegexp_Lock(t) ==
    /\ LockAnnounce(t, "hcar_lock", "hcar_body")
    /\ UNCHANGED <<registry, readers, frame, nregs>>

\* HandleCommandAliasRegexp returning, as for its other rejections, when the alias
\* name is already set.
HandleCommandAliasRegexp_Body_RejectDuplicate(t) ==
    /\ Alive
    /\ pc[t] = "hcar_body"
    /\ WriteLocked(t)
    /\ LET lowerOrigName == ToLower(frame[t].originalName)
           doc == Lookup(lowerOrigName)
       IN  IF frame[t].exp.nil
           THEN Return(t) /\ UNCHANGED <<registry, wOwner>>
           ELSE IF doc = 0
           THEN Return(t) /\ UNCHANGED <<registry, wOwner>>
           ELSE LET added == IF Len(frame[t].aliasName) > 0
                             THEN AddAliasName(heap[doc], frame[t].aliasName)
                             ELSE <<TRUE, heap[doc].cmdAliasNames>>
                IN  IF ~added[1]
                    THEN Return(t) /\ UNCHANGED <<registry, wOwner>>
                    ELSE /\ heap' = [heap EXCEPT ![doc].cmdAliasNames = added[2]]
                         /\ wOwner' = 0
                         /\ pc' = [pc EXCEPT ![t] = "hcr_lock"]
                         /\ frame' = [frame EXCEPT ![t].cmd =
                                   HandlerDoc(heap[doc].CmdHandler, frame[t].aliasName,
                                              heap[doc].CmdDescription, heap[doc].CmdUsage, TRUE)]
                         /\ UNCHANGED <<commands, regexpCommands, commandNames, patterns,
                                        defaultHandler>>
    /\ UNCHANGED <<readers, nregs>>

\* HandleCommandAliasRegexp under the write lock, up to its return or its Unlock.
\* Both rejections return with the write lock still held.
HandleCommandAliasRegexp_Body(t) ==
    /\ Alive
    /\ pc[t] = "hcar_body"
    /\ WriteLocked(t)
    /\ LET lowerOrigName == ToLower(frame[t].originalName)
           doc == Lookup(lowerOrigName)
       IN  IF frame[t].exp.nil
           THEN Return(t) /\ UNCHANGED <<registry, wOwner>>
           ELSE IF doc = 0
           THEN Return(t) /\ UNCHANGED <<registry, wOwner>>
           ELSE LET added == IF Len(frame[t].aliasName) > 0
                             THEN AddAliasName(heap[doc], frame[t].aliasName)
                             ELSE <<TRUE, heap[doc].cmdAliasNames>>
                IN  /\ heap' = [heap EXCEPT ![doc].cmdAliasNames = added[2]]
                    /\ wOwner' = 0
                    /\ pc' = [pc EXCEPT ![t] = "hcr_lock"]
                    /\ frame' = [frame EXCEPT ![t].cmd =
                              HandlerDoc(heap[doc].CmdHandler, frame[t].aliasName,
                                         heap[doc].CmdDescription, heap[doc].CmdUsage, TRUE)]
                    /\ UNCHANGED <<commands, regexpCommands, commandNames, patterns,
                                   defaultHandler>>
    /\ UNCHANGED <<readers, nregs>>

\* HandleCommandAliasPattern is called with a pattern string: regexp.MustCompile panics
\* on a string that does not compile, before HandleCommandAliasRegexp is called.
HandleCommandAliasPattern_Call(t) ==
    \E pattern \in PatternStrings :
        LET compiled == regexpCompile(pattern) IN
        RegCall(t, IF compiled[1] THEN "hcar_lock" ELSE "panic",
                [NoFrame EXCEPT !.originalName = S_thanks, !.aliasName = S_thx,
                                !.exp = compiled[2]])

\* HandlePattern is called with a pattern string and a handler:
\* regexp.MustCompile panics on a string that does not compile, before HandleRegexp
\* is called and before any lock is taken.
HandlePattern_Call(t) ==
    \E pattern \in PatternStrings :
        LET compiled == regexpCompile(pattern) IN
        RegCall(t, IF compiled[1] THEN "hr_lock" ELSE "panic",
                [NoFrame EXCEPT !.exp = compiled[2], !.handler = nregs + 1])

\* HandleRegexp is called with a (possibly nil) regular expression and a handler.
HandleRegexp_Call(t) ==
    \E exp \in PatternRegexps :
        RegCall(t, "hr_lock", [NoFrame EXCEPT !.exp = exp, !.handler = nregs + 1])

\* d.handlerMutex.Lock() in HandleRegexp.
HandleRegexp_Lock(t) ==
    /\ LockAnnounce(t, "hr_lock", "hr_body")
    /\ UNCHANGED <<registry, readers, frame, nregs>>

\* HandleRegexp under the write lock, and the deferred Unlock.
HandleRegexp_Body(t) ==
    /\ Alive
    /\ pc[t] = "hr_body"
    /\ WriteLocked(t)
    /\ patterns' = IF frame[t].exp.nil
                   THEN patterns
                   ELSE Append(patterns, [exp |-> frame[t].exp, handle |-> frame[t].handler])
    /\ wOwner' = 0
    /\ Return(t)
    /\ UNCHANGED <<heap, commands, regexpCommands, commandNames, defaultHandler,
                   readers, nregs>>

\* SetDefaultHandler is called with a handler.
SetDefaultHandler_Call(t) ==
    RegCall(t, "sdh_lock", [NoFrame EXCEPT !.handler = nregs + 1])

\* d.handlerMutex.Lock() in SetDefaultHandler.
SetDefaultHandler_Lock(t) ==
    /\ LockAnnounce(t, "sdh_lock", "sdh_body")
    /\ UNCHANGED <<registry, readers, frame, nregs>>

\* SetDefaultHandler under the write lock, and the deferred Unlock.
SetDefaultHandler_Body(t) ==
    /\ Alive
    /\ pc[t] = "sdh_body"
    /\ WriteLocked(t)
    /\ defaultHandler' = frame[t].handler
    /\ wOwner' = 0
    /\ Return(t)
    /\ UNCHANGED <<heap, commands, regexpCommands, commandNames, patterns, readers, nregs>>

\* EnableHelpCommand is called.
EnableHelpCommand_Call(t) ==
    RegCall(t, "ehc_read", NoFrame)

\* Some other thread is inside the body of HandleCommand, where d.commands is written.
MapWriteInProgress(t) ==
    \E u \in DOMAIN pc \ {t} : pc[u] = "hc_body" /\ WriteLocked(u)

\* EnableHelpCommand up to its call of HandleCommand: it reads d.commands without
\* the lock (only to log) and builds the help document.  A read of the map while
\* another thread writes it is a data race: the read goes unnoticed, or the runtime
\* stops the process (fatal error: concurrent map read and map write).
EnableHelpCommand_Read(t) ==
    /\ Alive
    /\ pc[t] = "ehc_read"
    /\ \E fatal \in (IF MapWriteInProgress(t) THEN BOOLEAN ELSE {FALSE}) :
          IF fatal
          THEN pc' = [pc EXCEPT ![t] = "panic"] /\ UNCHANGED frame
          ELSE /\ pc' = [pc EXCEPT ![t] = "hc_lock"]
               /\ frame' = [frame EXCEPT ![t].cmd = defaultHelpHandlerDoc]
    /\ UNCHANGED <<registry, wOwner, readers, nregs>>

--------------------------------------------------------------------------------
(* Commands *)

\* Commands is called.
Commands_Call(t) ==
    /\ Call(t, "cm_rlock", NoFrame)
    /\ UNCHANGED <<registry, wOwner, readers, nregs>>

\* d.handlerMutex.RLock() in Commands.
Commands_RLock(t) ==
    /\ RLock(t, "cm_rlock", "cm_body")
    /\ UNCHANGED <<registry, wOwner, frame, nregs>>

\* Commands under the read lock, and the deferred RUnlock: cmdCopy gets every key of
\* d.commands with the value stored under it, which is the pointer to the document,
\* and is returned to the caller.
Commands_Body(t) ==
    /\ Alive
    /\ pc[t] = "cm_body"
    /\ frame' = [frame EXCEPT ![t].snapshot = commands]
    /\ readers' = [readers EXCEPT ![t] = @ - 1]
    /\ pc' = [pc EXCEPT ![t] = "cm_held"]
    /\ UNCHANGED <<registry, wOwner, nregs>>

\* The handler a caller of Commands puts into a document it got from the map.
CallerHandler == 100

\* The caller stores nil under a key of the returned map (mapCopy["mock"] = nil).
Snapshot_Put(t) ==
    /\ Alive
    /\ pc[t] = "cm_held"
    /\ \E key \in {S_mock, S_thanks} :
          frame' = [frame EXCEPT ![t].snapshot = (key :> 0) @@ @]
    /\ UNCHANGED <<registry, wOwner, readers, pc, nregs>>

\* The caller deletes a key of the returned map.
Snapshot_Delete(t) ==
    /\ Alive
    /\ pc[t] = "cm_held"
    /\ \E key \in DOMAIN frame[t].snapshot :
          frame' = [frame EXCEPT ![t].snapshot =
                       [k \in DOMAIN frame[t].snapshot \ {key} |-> frame[t].snapshot[k]]]
    /\ UNCHANGED <<registry, wOwner, readers, pc, nregs>>

\* Some other thread is inside AddAliasName on the document doc, between its test
\* and its assignment of d.cmdAliasNames, and the assignment will change the slice.
AliasWriteInProgress(t, doc) ==
    \E u \in DOMAIN pc \ {t} :
        /\ pc[u] = "cm_add"
        /\ frame[u].entry = doc
        /\ \A i \in 1..Len(heap[doc].cmdAliasNames) : heap[doc].cmdAliasNames[i] # S_mock

\* The caller calls AddAliasName on a value of the returned map (a method of
\* HandlerDocPair): the value is the pointer the dispatcher holds.  This is the
\* search and the test of AddAliasName, which read d.cmdAliasNames without a lock:
\* the name is there and the call returns false, or the call goes on to the
\* assignment.  A read of the slice while another goroutine assigns it is a data
\* race: it sees the slice before or after the assignment, or a torn slice header
\* (no array, length 1), and then the goroutine panics on a nil dereference.
Snapshot_EntryAddAliasName(t) ==
    /\ Alive
    /\ pc[t] = "cm_held"
    /\ \E key \in DOMAIN frame[t].snapshot :
          LET doc == frame[t].snapshot[key] IN
          /\ doc # 0
          /\ \E torn \in (IF AliasWriteInProgress(t, doc) THEN BOOLEAN ELSE {FALSE}) :
                IF torn
                THEN pc' = [pc EXCEPT ![t] = "panic"] /\ UNCHANGED frame
                ELSE IF AddAliasName(heap[doc], S_mock)[1]
                     THEN /\ pc' = [pc EXCEPT ![t] = "cm_add"]
                          /\ frame' = [frame EXCEPT ![t].entry = doc]
                     ELSE UNCHANGED <<pc, frame>>
    /\ UNCHANGED <<registry, wOwner, readers, nregs>>

\* The assignment of AddAliasName, d.cmdAliasNames = appendInOrderWithoutRepeats(
\* d.cmdAliasNames, aliasName), and the return of true: the slice is read once more,
\* with the same race, and assigned without a lock.
Snapshot_EntryAddAliasName_Assign(t) ==
    /\ Alive
    /\ pc[t] = "cm_add"
    /\ LET doc == frame[t].entry IN
       \E torn \in (IF AliasWriteInProgress(t, doc) THEN BOOLEAN ELSE {FALSE}) :
          IF torn
          THEN pc' = [pc EXCEPT ![t] = "panic"] /\ UNCHANGED <<heap, frame>>
          ELSE /\ heap' = [heap EXCEPT ![doc].cmdAliasNames =
                                appendInOrderWithoutRepeats(heap[doc].cmdAliasNames, S_mock)]
               /\ pc' = [pc EXCEPT ![t] = "cm_held"]
               /\ frame' = [frame EXCEPT ![t].entry = 0]
    /\ UNCHANGED <<commands, regexpCommands, commandNames, patterns, defaultHandler,
                   wOwner, readers, nregs>>

\* The caller assigns the exported field CmdHandler of a value of the returned map
\* (mapCopy[key].(*HandlerDoc).CmdHandler = ...).
Snapshot_EntrySetHandler(t) ==
    /\ Alive
    /\ pc[t] = "cm_held"
    /\ \E key \in DOMAIN frame[t].snapshot :
          LET doc == frame[t].snapshot[key] IN
          /\ doc # 0
          /\ heap' = [heap EXCEPT ![doc].CmdHandler = CallerHandler]
    /\ UNCHANGED <<commands, regexpCommands, commandNames, patterns, defaultHandler,
                   wOwner, readers, pc, frame, nregs>>

\* The caller lets go of the returned map.
Snapshot_Drop(t) ==
    /\ Alive
    /\ pc[t] = "cm_held"
    /\ Return(t)
    /\ UNCHANGED <<registry, wOwner, readers, nregs>>

--------------------------------------------------------------------------------
(* Message dispatch *)

\* One handler invocation, handler.Handle(&state{fields: fields}), and the place
\* that made it: "command" (matchCommands), "regexp" (matchCommandRegexp),
\* "default" (callDefault) or "pattern" (matchPatterns).
Invocation(via, handler, fields) == [via |-> via, handler |-> handler, fields |-> fields]

RECURSIVE findCommandRegexpFrom(_, _)
\* The loop of findCommandRegexp from position i on: the first matching
\* *HandlerDoc, 0 (nil) when none matches.
findCommandRegexpFrom(commandPart, i) ==
    IF i > Len(regexpCommands) THEN 0
    ELSE IF MatchString(heap[regexpCommands[i]].cmdRegexp, commandPart)
         THEN regexpCommands[i]
         ELSE findCommandRegexpFrom(commandPart, i + 1)

\* findCommandRegexp returning the last matching command instead of the first.
findCommandRegexp_Last(commandPart) ==
    LET hits == {i \in 1..Len(regexpCommands) :
                    MatchString(heap[regexpCommands[i]].cmdRegexp, commandPart)}
    IN  IF hits = {} THEN 0
        ELSE regexpCommands[CHOOSE i \in hits : \A j \in hits : j <= i]

findCommandRegexp(commandPart) == findCommandRegexpFrom(commandPart, 1)

\* matchCommandRegexp matching the patterns against the whole text.
matchCommandRegexp_FullText(messageText, commandName, fields) ==
    LET cmd == findCommandRegexp(messageText) IN
    IF cmd = 0 THEN <<>>
    ELSE <<Invocation("regexp", heap[cmd].CmdHandler, fields)>>

\* matchCommandRegexp: the invocations it makes; it returns true iff it makes one.
matchCommandRegexp(messageText, commandName, fields) ==
    LET cmd == findCommandRegexp(commandName) IN
    IF cmd = 0 THEN <<>>
    ELSE <<Invocation("regexp", heap[cmd].CmdHandler, fields)>>

\* matchCommands handing the handler every token, the command word included.
matchCommands_FullFields(messageText) ==
    LET fullFields == parseFields(messageText) IN
    IF Len(fullFields) = 0 THEN <<>>
    ELSE LET commandName == ToLower(fullFields[1])
             command == Lookup(commandName)
         IN  IF command = 0 \/ IsRegexpCommand(heap[command])
             THEN matchCommandRegexp(messageText, commandName, Tail(fullFields))
             ELSE <<Invocation("command", heap[command].CmdHandler, fullFields)>>

\* matchCommands trying the regexp commands before the exact name.
matchCommands_RegexpFirst(messageText) ==
    LET fullFields == parseFields(messageText) IN
    IF Len(fullFields) = 0 THEN <<>>
    ELSE LET commandName == ToLower(fullFields[1])
             fields == Tail(fullFields)
             command == Lookup(commandName)
             byRegexp == matchCommandRegexp(messageText, commandName, fields)
         IN  IF byRegexp # <<>> \/ command = 0
             THEN byRegexp
             ELSE <<Invocation("command", heap[command].CmdHandler, fields)>>

\* matchCommands: the invocations it makes; it returns true iff it makes one.
matchCommands(messageText) ==
    LET fullFields == parseFields(messageText) IN
    IF Len(fullFields) = 0 THEN <<>>
    ELSE LET commandName == ToLower(fullFields[1])
             fields == Tail(fullFields)
             command == Lookup(commandName)
         IN  IF command = 0 \/ IsRegexpCommand(heap[command])
             THEN matchCommandRegexp(messageText, commandName, fields)
             ELSE <<Invocation("command", heap[command].CmdHandler, fields)>>

\* callDefault dropping the attempted command word from the fields.
callDefault_DropHead(messageText) ==
    LET fields == parseFields(messageText) IN
    IF defaultHandler # NilHandler
    THEN <<Invocation("default", defaultHandler,
                      IF fields = <<>> THEN fields ELSE Tail(fields))>>
    ELSE <<>>

\* callDefault without its nil check.
callDefault_NoNilCheck(messageText) ==
    <<Invocation("default", defaultHandler, parseFields(messageText))>>

\* callDefault: the invocations it makes.
callDefault(messageText) ==
    LET fields == parseFields(messageText) IN
    IF defaultHandler # NilHandler
    THEN <<Invocation("default", defaultHandler, fields)>>
    ELSE <<>>

RECURSIVE matchPatternsFrom(_, _)
\* The loop of matchPatterns from position i on: the invocations it makes.
matchPatternsFrom(m, i) ==
    IF i > Len(patterns) THEN <<>>
    ELSE IF MatchString(patterns[i].exp, m.MsgText)
         THEN <<Invocation("pattern", patterns[i].handle, <<>>)>>
         ELSE matchPatternsFrom(m, i + 1)

\* matchPatterns invoking the last matching pattern instead of the first.
matchPatterns_Last(m) ==
    LET hits == {i \in 1..Len(patterns) : MatchString(patterns[i].exp, m.MsgText)} IN
    IF hits = {} THEN <<>>
    ELSE <<Invocation("pattern",
                      patterns[CHOOSE i \in hits : \A j \in hits : j <= i].handle, <<>>)>>

matchPatterns(m) == matchPatternsFrom(m, 1)

\* ProcessMessage trying the free patterns for an addressed message that matched
\* no command.
ProcessMessageBody_PatternFallback(m) ==
    LET messageText == m.MsgText
        nameMatch == botNameMatchLen(messageText)
    IN  IF nameMatch > 0 \/ m.MsgIsDirect
        THEN LET rest == Slice(messageText, nameMatch, Len(messageText))
                 matched == matchCommands(rest)
             IN  IF matched # <<>> THEN matched
                 ELSE IF matchPatterns(m) # <<>> THEN matchPatterns(m)
                 ELSE callDefault(rest)
        ELSE matchPatterns(m)

\* ProcessMessage stripping the mention only from messages that are not direct.
ProcessMessageBody_KeepPrefixWhenDirect(m) ==
    LET messageText == m.MsgText
        nameMatch == IF m.MsgIsDirect THEN 0 ELSE botNameMatchLen(messageText)
    IN  IF nameMatch > 0 \/ m.MsgIsDirect
        THEN LET rest == Slice(messageText, nameMatch, Len(messageText))
                 matched == matchCommands(rest)
             IN  IF matched # <<>> THEN matched ELSE callDefault(rest)
        ELSE matchPatterns(m)

\* ProcessMessage calling the default handler also after a command has matched.
ProcessMessageBody_AlsoDefault(m) ==
    LET messageText == m.MsgText
        nameMatch == botNameMatchLen(messageText)
    IN  IF nameMatch > 0 \/ m.MsgIsDirect
        THEN LET rest == Slice(messageText, nameMatch, Len(messageText))
             IN  matchCommands(rest) \o callDefault(rest)
        ELSE matchPatterns(m)

\* The body of ProcessMessage between RLock and the deferred calls: the handler
\* invocations it makes for message m.
ProcessMessageBody(m) ==
    LET messageText == m.MsgText
        nameMatch == botNameMatchLen(messageText)
    IN  IF nameMatch > 0 \/ m.MsgIsDirect
        THEN LET rest == Slice(messageText, nameMatch, Len(messageText))
                 matched == matchCommands(rest)
             IN  IF matched # <<>> THEN matched ELSE callDefault(rest)
        ELSE matchPatterns(m)

--------------------------------------------------------------------------------
(* Help *)

\* A text handed to Chat().Send or Reply, by its parts.
Sent(kind, name, description, aliases, usage, entries) ==
    [kind |-> kind, name |-> name, description |-> description, aliases |-> aliases,
     usage |-> usage, entries |-> entries]

RECURSIVE showAllEntries(_)
\* The loop of showAllCommands from position i of commandNames on: the
\* <<name, description>> lines written.
showAllEntries(i) ==
    IF i > Len(commandNames) THEN <<>>
    ELSE LET docPair == Lookup(commandNames[i]) IN
         IF docPair = 0 \/ heap[docPair].CmdIsHidden
         THEN showAllEntries(i + 1)
         ELSE << <<heap[docPair].CmdName, heap[docPair].CmdDescription>> >>
                 \o showAllEntries(i + 1)

\* showAllCommands: the text sent.
showAllCommands ==
    IF Len(commandNames) = 0
    THEN Sent("no commands", <<>>, <<>>, <<>>, <<>>, <<>>)
    ELSE Sent("available commands", <<>>, <<>>, <<>>, <<>>, showAllEntries(1))

\* showCommandHelp treating a hidden command as one that does not exist.
showCommandHelp_SkipHidden(fields) ==
    LET cmdName == ToLower(fields[1])
        found == IF Lookup(cmdName) # 0 THEN Lookup(cmdName)
                 ELSE findCommandRegexp(cmdName)
        docPair == IF found # 0 /\ heap[found].CmdIsHidden THEN 0 ELSE found
    IN  IF docPair = 0
        THEN Sent("unrecognized command", cmdName, <<>>, <<>>, <<>>, <<>>)
        ELSE Sent("command help", cmdName, heap[docPair].CmdDescription,
                  heap[docPair].cmdAliasNames, heap[docPair].CmdUsage, <<>>)

\* showCommandHelp for the fields of the state: the text sent.
showCommandHelp(fields) ==
    LET cmdName == ToLower(fields[1])
        docPair == IF Lookup(cmdName) # 0 THEN Lookup(cmdName)
                   ELSE findCommandRegexp(cmdName)
    IN  IF docPair = 0
        THEN Sent("unrecognized command", cmdName, <<>>, <<>>, <<>>, <<>>)
        ELSE Sent("command help", cmdName, heap[docPair].CmdDescription,
                  heap[docPair].cmdAliasNames, heap[docPair].CmdUsage, <<>>)

--------------------------------------------------------------------------------
(* ProcessMessage *)

\* ProcessMessage is called.
ProcessMessage_Call(t) ==
    /\ Call(t, "pm_rlock", NoFrame)
    /\ UNCHANGED <<registry, wOwner, readers, nregs>>

\* d.handlerMutex.RLock() in ProcessMessage.
ProcessMessage_RLock(t) ==
    /\ RLock(t, "pm_rlock", "pm_body")
    /\ UNCHANGED <<registry, wOwner, frame, nregs>>

\* ProcessMessage under the read lock up to the handler it invokes, for the message m
\* it reads there (m.Text(), m.IsDirectMessage()): a user handler runs and returns
\* or panics; the help handler goes on to take the read lock itself.
ProcessMessage_Body(t) ==
    /\ Alive
    /\ pc[t] = "pm_body"
    /\ \E m \in Messages :
       LET calls == ProcessMessageBody(m) IN
       \E panics \in BOOLEAN :
           /\ panics => (calls # <<>> /\ calls[1].handler > 0)
           /\ frame' = [frame EXCEPT ![t].m = m, ![t].calls = calls, ![t].panicked = panics]
           /\ pc' = [pc EXCEPT ![t] =
                        IF calls # <<>> /\ calls[1].handler = HelpHandler
                        THEN "help_rlock" ELSE "pm_defer"]
    /\ UNCHANGED <<registry, wOwner, readers, nregs>>

\* ProcessMessage under the read lock up to a handler of the caller that registers
\* a command: the handler calls HandleCommand on the dispatcher it was invoked by.
ProcessMessage_BodyHandlerRegisters(t) ==
    /\ Alive
    /\ pc[t] = "pm_body"
    /\ nregs < MaxRegs
    /\ \E m \in Messages :
       LET calls == ProcessMessageBody(m) IN
       /\ calls # <<>> /\ calls[1].handler > 0
       /\ \E in \in CommandInputs :
             frame' = [frame EXCEPT ![t].m = m, ![t].calls = calls,
                                    ![t].cmd = UserDoc(nregs + 1, in[1], in[2]),
                                    ![t].inHandler = TRUE]
    /\ pc' = [pc EXCEPT ![t] = "hc_lock"]
    /\ nregs' = nregs + 1
    /\ UNCHANGED <<registry, wOwner, readers>>

\* d.handlerMutex.RLock() in defaultHelpHandler.
defaultHelpHandler_RLock(t) ==
    /\ RLock(t, "help_rlock", "help_body")
    /\ UNCHANGED <<registry, wOwner, frame, nregs>>

\* defaultHelpHandler under its read lock, and its deferred RUnlock.
defaultHelpHandler_Body(t) ==
    /\ Alive
    /\ pc[t] = "help_body"
    /\ LET fields == frame[t].calls[1].fields IN
       frame' = [frame EXCEPT ![t].sent =
                    <<IF Len(fields) = 0 THEN showAllCommands ELSE showCommandHelp(fields)>>]
    /\ readers' = [readers EXCEPT ![t] = @ - 1]
    /\ pc' = [pc EXCEPT ![t] = "pm_defer"]
    /\ UNCHANGED <<registry, wOwner, nregs>>

\* The deferred function of ProcessMessage without its recover().
recoverPanic_Absent(panicking) == panicking

\* The deferred function of ProcessMessage, which calls recover(): whether the
\* goroutine is still panicking after it.
recoverPanic(panicking) == FALSE

\* The deferred calls of ProcessMessage (recover, RUnlock) and its return.
ProcessMessage_Return(t) ==
    /\ Alive
    /\ pc[t] = "pm_defer"
    /\ readers' = [readers EXCEPT ![t] = @ - 1]
    /\ IF recoverPanic(frame[t].panicked)
       THEN pc' = [pc EXCEPT ![t] = "panic"] /\ UNCHANGED frame
       ELSE Return(t)
    /\ UNCHANGED <<registry, wOwner, nregs>>

--------------------------------------------------------------------------------
(* Specification *)

\* One step of thread t.
Step(t) ==
        \/ HandleCommand_Call(t) /\ RobotIdle
        \/ HandleCommand_Lock(t) /\ RobotIdle
        \/ HandleCommand_Body(t) /\ RobotIdle
        \/ HandleCommandRegexp_Call(t) /\ RobotIdle
        \/ HandleCommandRegexp_Lock(t) /\ RobotIdle
        \/ HandleCommandRegexp_Body(t) /\ RobotIdle
        \/ HandleCommandPattern_Call(t) /\ RobotIdle
        \/ HandleCommandAlias_Call(t) /\ RobotIdle
        \/ HandleCommandAlias_Lock(t) /\ RobotIdle
        \/ HandleCommandAlias_Body(t) /\ RobotIdle
        \/ HandleCommandAliasRegexp_Call(t) /\ RobotIdle
        \/ HandleCommandAliasRegexp_Lock(t) /\ RobotIdle
        \/ HandleCommandAliasRegexp_Body(t) /\ RobotIdle
        \/ HandleCommandAliasPattern_Call(t) /\ RobotIdle
        \/ HandlePattern_Call(t) /\ RobotIdle
        \/ HandleRegexp_Call(t) /\ RobotIdle
        \/ HandleRegexp_Lock(t) /\ RobotIdle
        \/ HandleRegexp_Body(t) /\ RobotIdle
        \/ SetDefaultHandler_Call(t) /\ RobotIdle
        \/ SetDefaultHandler_Lock(t) /\ RobotIdle
        \/ SetDefaultHandler_Body(t) /\ RobotIdle
        \/ EnableHelpCommand_Call(t) /\ RobotIdle
        \/ EnableHelpCommand_Read(t) /\ RobotIdle
        \/ ProcessMessage_Call(t) /\ RobotIdle
        \/ ProcessMessage_RLock(t) /\ RobotIdle
        \/ ProcessMessage_Body(t) /\ RobotIdle
        \/ defaultHelpHandler_RLock(t) /\ RobotIdle
        \/ defaultHelpHandler_Body(t) /\ RobotIdle
        \/ ProcessMessage_Return(t) /\ RobotIdle

Next == \E t \in Threads : Step(t)

\* One caller: every input, in every order.
Spec == Init /\ [][Next]_vars

\* The inputs of the registry specification: every registration input, and
\* ProcessMessage of a message of RegMessages whose handler returns.
RegInput(t) ==
    pc[t] \in {"pm_defer", "help_rlock"} => (frame[t].m \in RegMessages /\ ~frame[t].panicked)

NextReg ==
    \E t \in Threads :
        \/ HandleCommand_Call(t) /\ RegInput(t)' /\ RobotIdle
        \/ HandleCommand_Lock(t) /\ RegInput(t)' /\ RobotIdle
        \/ HandleCommand_Body(t) /\ RegInput(t)' /\ RobotIdle
        \/ HandleCommandRegexp_Call(t) /\ RegInput(t)' /\ RobotIdle
        \/ HandleCommandRegexp_Lock(t) /\ RegInput(t)' /\ RobotIdle
        \/ HandleCommandRegexp_Body(t) /\ RegInput(t)' /\ RobotIdle
        \/ HandleCommandPattern_Call(t) /\ RegInput(t)' /\ RobotIdle
        \/ HandleCommandAlias_Call(t) /\ RegInput(t)' /\ RobotIdle
        \/ HandleCommandAlias_Lock(t) /\ RegInput(t)' /\ RobotIdle
        \/ HandleCommandAlias_Body(t) /\ RegInput(t)' /\ RobotIdle
        \/ HandleCommandAliasRegexp_Call(t) /\ RegInput(t)' /\ RobotIdle
        \/ HandleCommandAliasRegexp_Lock(t) /\ RegInput(t)' /\ RobotIdle
        \/ HandleCommandAliasRegexp_Body(t) /\ RegInput(t)' /\ RobotIdle
        \/ HandleCommandAliasPattern_Call(t) /\ RegInput(t)' /\ RobotIdle
        \/ HandlePattern_Call(t) /\ RegInput(t)' /\ RobotIdle
        \/ HandleRegexp_Call(t) /\ RegInput(t)' /\ RobotIdle
        \/ HandleRegexp_Lock(t) /\ RegInput(t)' /\ RobotIdle
        \/ HandleRegexp_Body(t) /\ RegInput(t)' /\ RobotIdle
        \/ SetDefaultHandler_Call(t) /\ RegInput(t)' /\ RobotIdle
        \/ SetDefaultHandler_Lock(t) /\ RegInput(t)' /\ RobotIdle
        \/ SetDefaultHandler_Body(t) /\ RegInput(t)' /\ RobotIdle
        \/ EnableHelpCommand_Call(t) /\ RegInput(t)' /\ RobotIdle
        \/ EnableHelpCommand_Read(t) /\ RegInput(t)' /\ RobotIdle
        \/ ProcessMessage_Call(t) /\ RegInput(t)' /\ RobotIdle
        \/ ProcessMessage_RLock(t) /\ RegInput(t)' /\ RobotIdle
        \/ ProcessMessage_Body(t) /\ RegInput(t)' /\ RobotIdle
        \/ defaultHelpHandler_RLock(t) /\ RegInput(t)' /\ RobotIdle
        \/ defaultHelpHandler_Body(t) /\ RegInput(t)' /\ RobotIdle
        \/ ProcessMessage_Return(t) /\ RegInput(t)' /\ RobotIdle

\* One caller: every registration input in every order, and the messages that ask
\* for help or name a command.
SpecReg == Init /\ [][NextReg]_vars

\* The dispatcher after newDispatch, with the callers of the concurrent specification.
InitConc ==
    /\ heap = <<>>
    /\ commands = <<>>
    /\ regexpCommands = <<>>
    /\ commandNames = <<>>
    /\ patterns = <<>>
    /\ defaultHandler = NilHandler
    /\ wOwner = 0
    /\ readers = [t \in ConcThreads |-> 0]
    /\ pc = [t \in ConcThreads |-> "idle"]
    /\ frame = [t \in ConcThreads |-> NoFrame]
    /\ nregs = 0
    /\ robot = NewRobot(BotName)
    /\ run = NotRunning

\* The inputs of the concurrent specification: thread t's call is one of
\* HandleCommand(Thanks), HandleCommandRegexp(^th), HandleCommandAlias(thanks, thx),
\* HandleCommandAliasRegexp(thanks, thx, ^th), HandleRegexp((?i)hank),
\* SetDefaultHandler, EnableHelpCommand and ProcessMessage of a message of
\* ConcMessages whose handler returns.
ConcInput(t) ==
    /\ nregs <= MaxConcRegs
    /\ pc[t] = "hc_lock" =>
          \/ frame[t].cmd.CmdName = S_Thanks /\ ~frame[t].cmd.CmdIsHidden
          \/ frame[t].cmd.CmdName = helpCommandName
          \/ frame[t].originalName # <<>>
    /\ pc[t] = "hcr_lock" => frame[t].exp = R_th
    /\ pc[t] = "hca_lock" => (frame[t].originalName = S_thanks /\ frame[t].aliasName = S_thx)
    /\ pc[t] = "hcar_lock" =>
          (frame[t].originalName = S_thanks /\ frame[t].aliasName = S_thx /\ frame[t].exp = R_th)
    /\ pc[t] = "hr_lock" => frame[t].exp = R_hank
    /\ pc[t] \in {"pm_defer", "help_rlock"} => (frame[t].m \in ConcMessages /\ ~frame[t].panicked)

NextConc ==
    \E t \in ConcThreads :
        \/ HandleCommand_Call(t) /\ ConcInput(t)' /\ RobotIdle
        \/ HandleCommand_Lock(t) /\ ConcInput(t)' /\ RobotIdle
        \/ HandleCommand_Body(t) /\ ConcInput(t)' /\ RobotIdle
        \/ HandleCommandRegexp_Call(t) /\ ConcInput(t)' /\ RobotIdle
        \/ HandleCommandRegexp_Lock(t) /\ ConcInput(t)' /\ RobotIdle
        \/ HandleCommandRegexp_Body(t) /\ ConcInput(t)' /\ RobotIdle
        \/ HandleCommandAlias_Call(t) /\ ConcInput(t)' /\ RobotIdle
        \/ HandleCommandAlias_Lock(t) /\ ConcInput(t)' /\ RobotIdle
        \/ HandleCommandAlias_Body(t) /\ ConcInput(t)' /\ RobotIdle
        \/ HandleCommandAliasRegexp_Call(t) /\ ConcInput(t)' /\ RobotIdle
        \/ HandleCommandAliasRegexp_Lock(t) /\ ConcInput(t)' /\ RobotIdle
        \/ HandleCommandAliasRegexp_Body(t) /\ ConcInput(t)' /\ RobotIdle
        \/ HandleRegexp_Call(t) /\ ConcInput(t)' /\ RobotIdle
        \/ HandleRegexp_Lock(t) /\ ConcInput(t)' /\ RobotIdle
        \/ HandleRegexp_Body(t) /\ ConcInput(t)' /\ RobotIdle
        \/ SetDefaultHandler_Call(t) /\ ConcInput(t)' /\ RobotIdle
        \/ SetDefaultHandler_Lock(t) /\ ConcInput(t)' /\ RobotIdle
        \/ SetDefaultHandler_Body(t) /\ ConcInput(t)' /\ RobotIdle
        \/ EnableHelpCommand_Call(t) /\ ConcInput(t)' /\ RobotIdle
        \/ EnableHelpCommand_Read(t) /\ ConcInput(t)' /\ RobotIdle
        \/ ProcessMessage_Call(t) /\ ConcInput(t)' /\ RobotIdle
        \/ ProcessMessage_RLock(t) /\ ConcInput(t)' /\ RobotIdle
        \/ ProcessMessage_Body(t) /\ ConcInput(t)' /\ RobotIdle
        \/ defaultHelpHandler_RLock(t) /\ ConcInput(t)' /\ RobotIdle
        \/ defaultHelpHandler_Body(t) /\ ConcInput(t)' /\ RobotIdle
        \/ ProcessMessage_Return(t) /\ ConcInput(t)' /\ RobotIdle

\* Concurrent callers: a few inputs, in every interleaving.
SpecConc == InitConc /\ [][NextConc]_vars

\* The inputs of the snapshot specification: thread t's call is one of
\* HandleCommand(Thanks), EnableHelpCommand, Commands and ProcessMessage of a message
\* of ConcMessages whose handler returns.
SnapInput(t) ==
    /\ nregs <= MaxConcRegs
    /\ pc[t] = "hc_lock" =>
          \/ frame[t].cmd.CmdName = S_Thanks /\ ~frame[t].cmd.CmdIsHidden
          \/ frame[t].cmd.CmdName = helpCommandName
    /\ pc[t] \in {"pm_defer", "help_rlock"} => (frame[t].m \in ConcMessages /\ ~frame[t].panicked)

NextSnap ==
    \E t \in ConcThreads :
        \/ HandleCommand_Call(t) /\ SnapInput(t)' /\ RobotIdle
        \/ HandleCommand_Lock(t) /\ SnapInput(t)' /\ RobotIdle
        \/ HandleCommand_Body(t) /\ SnapInput(t)' /\ RobotIdle
        \/ EnableHelpCommand_Call(t) /\ SnapInput(t)' /\ RobotIdle
        \/ EnableHelpCommand_Read(t) /\ SnapInput(t)' /\ RobotIdle
        \/ ProcessMessage_Call(t) /\ SnapInput(t)' /\ RobotIdle
        \/ ProcessMessage_RLock(t) /\ SnapInput(t)' /\ RobotIdle
        \/ ProcessMessage_Body(t) /\ SnapInput(t)' /\ RobotIdle
        \/ defaultHelpHandler_RLock(t) /\ SnapInput(t)' /\ RobotIdle
        \/ defaultHelpHandler_Body(t) /\ SnapInput(t)' /\ RobotIdle
        \/ ProcessMessage_Return(t) /\ SnapInput(t)' /\ RobotIdle
        \/ Commands_Call(t) /\ SnapInput(t)' /\ RobotIdle
        \/ Commands_RLock(t) /\ SnapInput(t)' /\ RobotIdle
        \/ Commands_Body(t) /\ SnapInput(t)' /\ RobotIdle
        \/ Snapshot_Put(t) /\ SnapInput(t)' /\ RobotIdle
        \/ Snapshot_Delete(t) /\ SnapInput(t)' /\ RobotIdle
        \/ Snapshot_EntryAddAliasName(t) /\ SnapInput(t)' /\ RobotIdle
        \/ Snapshot_EntryAddAliasName_Assign(t) /\ SnapInput(t)' /\ RobotIdle
        \/ Snapshot_EntrySetHandler(t) /\ SnapInput(t)' /\ RobotIdle
        \/ Snapshot_Drop(t) /\ SnapInput(t)' /\ RobotIdle

\* Concurrent callers that register commands, process messages and take copies of
\* the command map.
SpecSnap == InitConc /\ [][NextSnap]_vars

\* The messages of the specification of handlers that register.
HandlerMessages == { Message(T_thanks_you, TRUE), Message(T_at_comma, FALSE),
                     Message(T_you_thanks, TRUE), Message(T_you_thanks, FALSE) }

\* The inputs of that specification: the messages are of HandlerMessages and no
\* handler panics.
HandlerInput(t) ==
    (pc[t] = "pm_defer" \/ frame[t].inHandler) =>
        (frame[t].m \in HandlerMessages /\ ~frame[t].panicked)

NextHandler ==
    \E t \in Threads :
        \/ HandleCommand_Call(t) /\ HandlerInput(t)' /\ RobotIdle
        \/ HandleCommand_Lock(t) /\ HandlerInput(t)' /\ RobotIdle
        \/ HandleCommand_Body(t) /\ HandlerInput(t)' /\ RobotIdle
        \/ SetDefaultHandler_Call(t) /\ HandlerInput(t)' /\ RobotIdle
        \/ SetDefaultHandler_Lock(t) /\ HandlerInput(t)' /\ RobotIdle
        \/ SetDefaultHandler_Body(t) /\ HandlerInput(t)' /\ RobotIdle
        \/ ProcessMessage_Call(t) /\ HandlerInput(t)' /\ RobotIdle
        \/ ProcessMessage_RLock(t) /\ HandlerInput(t)' /\ RobotIdle
        \/ ProcessMessage_Body(t) /\ HandlerInput(t)' /\ RobotIdle
        \/ ProcessMessage_BodyHandlerRegisters(t) /\ HandlerInput(t)' /\ RobotIdle
        \/ ProcessMessage_Return(t) /\ HandlerInput(t)' /\ RobotIdle

\* Registrations and messages whose handlers may register a command themselves.
SpecHandler == Init /\ [][NextHandler]_vars

\* The longest input given to parseFields.
MaxLen == 5

\* The characters of the inputs: two letters, a space, a tab and the double quote.
FieldChars == {"a", "b", " ", "\t", "\""}

\* The input strings of the direct calls of parseFields.
FieldInputs == UNION {[1..n -> FieldChars] : n \in 0..MaxLen}

\* parseFields is called with an input string.
parseFields_Call(t) ==
    /\ pc[t] = "idle"
    /\ \E input \in FieldInputs : Call(t, "pf_body", [NoFrame EXCEPT !.input = input])
    /\ UNCHANGED <<registry, wOwner, readers, nregs>>

\* The body of parseFields: the fields it returns.
parseFields_Body(t) ==
    /\ Alive
    /\ pc[t] = "pf_body"
    /\ frame' = [frame EXCEPT ![t].fields = parseFields(frame[t].input)]
    /\ pc' = [pc EXCEPT ![t] = "pf_done"]
    /\ UNCHANGED <<registry, wOwner, readers, nregs>>

\* The caller has looked at the fields.
parseFields_Return(t) ==
    /\ Alive
    /\ pc[t] = "pf_done"
    /\ Return(t)
    /\ UNCHANGED <<registry, wOwner, readers, nregs>>

NextFields ==
    \E t \in Threads :
        \/ parseFields_Call(t) /\ RobotIdle
        \/ parseFields_Body(t) /\ RobotIdle
        \/ parseFields_Return(t) /\ RobotIdle

\* Direct calls of the tokenizer, as the test of the fields makes them.
SpecFields == Init /\ [][NextFields]_vars

--------------------------------------------------------------------------------
(* The robot's receive loop *)

\* config.Name in New: a lower-case name and a name with an upper-case letter.
RobotNames == {<<"b","o","t">>, <<"B","o","t">>}

\* m.User().Name() of the messages the transport delivers.
UserNames == {<<"b","o","t">>, <<"B","o","t">>, <<"a","n","n">>}

\* A panic that nothing recovers ends the process.
RobotAlive == \A p \in Transport : run.recv[p].pc # "panic"

\* The test of the receive loop on a message: whether it is passed to ProcessMessage.
PassedOn(m) == ToLower(m.user) # robot.name

\* Run: r.chat.Run() and the go statement that starts the receive loop.
Run_Call ==
    /\ RobotAlive
    /\ run.loop = "none"
    /\ run' = [run EXCEPT !.loop = "select"]
    /\ UNCHANGED <<dispatchVars, robot>>

\* Receive is called by goroutine p of the transport and reaches its send on the
\* unbuffered channel incoming.
Receive_Call(p) ==
    /\ RobotAlive
    /\ run.recv[p].pc = "idle"
    /\ run.nrecv < MaxReceives
    /\ \E user \in UserNames :
          run' = [run EXCEPT !.recv[p] = [pc |-> "send", m |-> RobotMessage(run.nrecv + 1, user)],
                             !.nrecv = @ + 1]
    /\ UNCHANGED <<dispatchVars, robot>>

\* The send of Receive on the closed channel incoming, begun before or after the
\* close: it panics, and nothing recovers it.
Receive_SendClosed(p) ==
    /\ RobotAlive
    /\ run.recv[p].pc = "send"
    /\ robot.incoming = "closed"
    /\ run' = [run EXCEPT !.recv[p].pc = "panic"]
    /\ UNCHANGED <<dispatchVars, robot>>

\* The select of the receive loop takes case m := <-r.incoming: the send of
\* goroutine p and the receive happen together, and Receive returns.
Run_SelectIncoming(p) ==
    /\ RobotAlive
    /\ run.loop = "select"
    /\ run.recv[p].pc = "send"
    /\ robot.incoming = "open"
    /\ run' = [run EXCEPT !.loop = "got", !.m = run.recv[p].m,
                          !.recv[p] = [pc |-> "idle", m |-> RobotMessage(0, <<>>)]]
    /\ UNCHANGED <<dispatchVars, robot>>

\* The body of case m := <-r.incoming: the message is handed to a new goroutine
\* that runs ProcessMessage unless its user's lower-cased name is r.name.
Run_Dispatch ==
    /\ RobotAlive
    /\ run.loop = "got"
    /\ run' = [run EXCEPT !.loop = "select",
                          !.m = RobotMessage(0, <<>>),
                          !.spawned = IF PassedOn(run.m) THEN Append(@, run.m) ELSE @]
    /\ UNCHANGED <<dispatchVars, robot>>

\* The select of the receive loop takes case <-r.stop, which is ready once stop is
\* closed: close(r.incoming) and return.
Run_SelectStop ==
    /\ RobotAlive
    /\ run.loop = "select"
    /\ robot.stop = "closed"
    /\ robot' = [robot EXCEPT !.incoming = "closed"]
    /\ run' = [run EXCEPT !.loop = "done"]
    /\ UNCHANGED dispatchVars

\* Stop: r.chat.Stop(), close(r.stop), close(r.chatErrorChannel).
Stop_Call ==
    /\ RobotAlive
    /\ run.stopper = "idle"
    /\ robot.stop = "open"
    /\ robot' = [robot EXCEPT !.stop = "closed"]
    /\ run' = [run EXCEPT !.stopper = "done"]
    /\ UNCHANGED dispatchVars

\* New with a name of RobotNames.
InitRobot ==
    /\ heap = <<>>
    /\ commands = <<>>
    /\ regexpCommands = <<>>
    /\ commandNames = <<>>
    /\ patterns = <<>>
    /\ defaultHandler = NilHandler
    /\ wOwner = 0
    /\ readers = [t \in Threads |-> 0]
    /\ pc = [t \in Threads |-> "idle"]
    /\ frame = [t \in Threads |-> NoFrame]
    /\ nregs = 0
    /\ robot \in {NewRobot(name) : name \in RobotNames}
    /\ run = NotRunning

NextRobot ==
    \/ Run_Call
    \/ \E p \in Transport : Receive_Call(p)
    \/ \E p \in Transport : Receive_SendClosed(p)
    \/ \E p \in Transport : Run_SelectIncoming(p)
    \/ Run_Dispatch
    \/ Run_SelectStop
    \/ Stop_Call

\* The transport delivers messages while the robot is run and stopped.
SpecRobot == InitRobot /\ [][NextRobot]_vars

--------------------------------------------------------------------------------
(* What the claims speak of *)

\* Thread t is in ProcessMessage and has made its dispatch decision for frame[t].m.
Dispatched(t) == pc[t] \in {"pm_defer", "help_rlock", "help_body"}

\* s is a separator run of a mention: whitespace, at most one ':' or ',', whitespace.
IsSeparatorRun(s) ==
    \E a \in 0..Len(s) :
        /\ \A i \in 1..a : IsRegexpSpace(s[i])
        /\ \/ \A i \in (a + 1)..Len(s) : IsRegexpSpace(s[i])
           \/ /\ a < Len(s)
              /\ s[a + 1] \in {":", ","}
              /\ \A i \in (a + 2)..Len(s) : IsRegexpSpace(s[i])

\* text begins with '@' and the bot's name, compared case-insensitively.
StartsWithMention(text) ==
    /\ Len(text) >= Len(BotName) + 1
    /\ text[1] = "@"
    /\ ToLower(SubSeq(text, 2, Len(BotName) + 1)) = ToLower(BotName)

\* The length of the mention that prefixes text: '@', the name and the longest
\* separator run after it; 0 when text does not begin with a mention.
MentionLen(text) ==
    IF StartsWithMention(text)
    THEN CHOOSE p \in (Len(BotName) + 1)..Len(text) :
            /\ IsSeparatorRun(SubSeq(text, Len(BotName) + 2, p))
            /\ \A q \in (p + 1)..Len(text) :
                  ~IsSeparatorRun(SubSeq(text, Len(BotName) + 2, q))
    ELSE 0

\* The texts a message of the model can hold.
Texts == {m.MsgText : m \in Messages \cup {NoMessage}}

\* MentionLen of every text, computed once.
MentionLenOf == [text \in Texts |-> MentionLen(text)]

\* The message is addressed to the bot.
Addressed(m) == m.MsgIsDirect \/ MentionLenOf[m.MsgText] > 0

\* The tokens of what remains of every text after its mention, computed once.
TokensOf ==
    [text \in Texts |-> parseFields(SubSeq(text, MentionLenOf[text] + 1, Len(text)))]

\* The tokens of the text that remains after the mention.
Tokens(m) == TokensOf[m.MsgText]

\* The positions of the regexp commands whose pattern matches the string.
RegexpMatches(str) ==
    {i \in 1..Len(regexpCommands) : MatchString(heap[regexpCommands[i]].cmdRegexp, str)}

\* The positions of the free patterns whose pattern matches the string.
PatternMatches(str) == {i \in 1..Len(patterns) : MatchString(patterns[i].exp, str)}

\* The smallest element of a non-empty set of numbers.
Min(S) == CHOOSE x \in S : \A y \in S : x <= y

\* The first token names an exact command.
ExactMatch(m) == Tokens(m) # <<>> /\ ToLower(Tokens(m)[1]) \in DOMAIN commands

\* No exact command and no regexp command matches the first token.
NoCommandMatch(m) ==
    \/ Tokens(m) = <<>>
    \/ /\ ToLower(Tokens(m)[1]) \notin DOMAIN commands
       /\ RegexpMatches(ToLower(Tokens(m)[1])) = {}

--------------------------------------------------------------------------------
(* Claims *)

\* C1: for every addressed message whose lower-cased first token is the key of an
\* exact command, ProcessMessage invokes that command's handler exactly once with
\* the tokens after the first, and invokes nothing else.
C1_ExactCommandInvoked ==
    \A t \in Threads :
        (Dispatched(t) /\ Addressed(frame[t].m) /\ ExactMatch(frame[t].m)) =>
            frame[t].calls =
                <<Invocation("command",
                             heap[commands[ToLower(Tokens(frame[t].m)[1])]].CmdHandler,
                             Tail(Tokens(frame[t].m)))>>

\* An exact command was invoked with two arguments while a regexp command, a free
\* pattern or a default handler was registered too.
C1_Witness ==
    \E t \in Threads :
        /\ Dispatched(t) /\ Addressed(frame[t].m) /\ ExactMatch(frame[t].m)
        /\ Len(Tokens(frame[t].m)) = 3
        /\ frame[t].calls[1].via = "command"
        /\ Len(patterns) > 0 \/ Len(regexpCommands) > 0 \/ defaultHandler # NilHandler

\* C2: when the lower-cased first token of an addressed message is the key of an
\* exact command and also matches regexp commands, only the exact command's handler
\* is invoked.
C2_ExactBeforeRegexp ==
    \A t \in Threads :
        (/\ Dispatched(t) /\ Addressed(frame[t].m) /\ ExactMatch(frame[t].m)
         /\ RegexpMatches(ToLower(Tokens(frame[t].m)[1])) # {}) =>
            /\ Len(frame[t].calls) = 1
            /\ frame[t].calls[1].via = "command"
            /\ frame[t].calls[1].handler =
                  heap[commands[ToLower(Tokens(frame[t].m)[1])]].CmdHandler

\* The exact command was invoked although a regexp command registered before it,
\* with another handler, matches the first token.
C2_Witness ==
    \E t \in Threads :
        /\ Dispatched(t) /\ Addressed(frame[t].m) /\ ExactMatch(frame[t].m)
        /\ \E i \in RegexpMatches(ToLower(Tokens(frame[t].m)[1])) :
              /\ regexpCommands[i] < commands[ToLower(Tokens(frame[t].m)[1])]
              /\ heap[regexpCommands[i]].CmdHandler # frame[t].calls[1].handler
        /\ frame[t].calls[1].via = "command"

\* C3: for an addressed message with no exact match, the handler invoked is that of
\* the earliest-registered regexp command whose pattern matches the first token,
\* and no later-registered one is invoked.
C3_RegexpRegistrationOrder ==
    \A t \in Threads :
        (/\ Dispatched(t) /\ Addressed(frame[t].m) /\ Tokens(frame[t].m) # <<>>
         /\ ~ExactMatch(frame[t].m)
         /\ RegexpMatches(ToLower(Tokens(frame[t].m)[1])) # {}) =>
            LET first == Min(RegexpMatches(ToLower(Tokens(frame[t].m)[1]))) IN
            /\ \A i \in 1..Len(regexpCommands) :
                  i < first => regexpCommands[i] < regexpCommands[first]
            /\ frame[t].calls =
                  <<Invocation("regexp", heap[regexpCommands[first]].CmdHandler,
                               Tail(Tokens(frame[t].m)))>>

\* Two regexp commands with different handlers match the first token and the one
\* registered first was invoked.
C3_Witness ==
    \E t \in Threads :
        /\ Dispatched(t) /\ Addressed(frame[t].m) /\ Tokens(frame[t].m) # <<>>
        /\ ~ExactMatch(frame[t].m)
        /\ \E i, j \in RegexpMatches(ToLower(Tokens(frame[t].m)[1])) :
              /\ i < j
              /\ heap[regexpCommands[i]].CmdHandler # heap[regexpCommands[j]].CmdHandler
              /\ frame[t].calls[1].handler = heap[regexpCommands[i]].CmdHandler

\* C4: a regexp command's pattern is applied to the lower-cased first token only: if
\* it matches no more than a later token the command does not fire (the default
\* handler runs), and on a match the handler receives the tokens after the first.
C4_RegexpOnFirstTokenOnly ==
    \A t \in Threads :
        (Dispatched(t) /\ Addressed(frame[t].m) /\ Tokens(frame[t].m) # <<>>
            /\ ~ExactMatch(frame[t].m)) =>
            LET head == ToLower(Tokens(frame[t].m)[1]) IN
            IF RegexpMatches(head) = {}
            THEN /\ \A c \in 1..Len(frame[t].calls) : frame[t].calls[c].via # "regexp"
                 /\ defaultHandler # NilHandler =>
                       (Len(frame[t].calls) = 1 /\ frame[t].calls[1].via = "default")
            ELSE /\ Len(frame[t].calls) = 1
                 /\ frame[t].calls[1].via = "regexp"
                 /\ frame[t].calls[1].fields = Tail(Tokens(frame[t].m))
                 /\ \E i \in RegexpMatches(head) :
                       heap[regexpCommands[i]].CmdHandler = frame[t].calls[1].handler

\* A regexp command's pattern matches a later token of the text but not the first,
\* and the default handler ran instead of the command.
C4_Witness ==
    \E t \in Threads :
        /\ Dispatched(t) /\ Addressed(frame[t].m) /\ Len(Tokens(frame[t].m)) > 1
        /\ ~ExactMatch(frame[t].m)
        /\ RegexpMatches(ToLower(Tokens(frame[t].m)[1])) = {}
        /\ RegexpMatches(Tokens(frame[t].m)[2]) # {}
        /\ frame[t].calls # <<>> /\ frame[t].calls[1].via = "default"

\* C5: when an addressed message matches no exact and no regexp command, the default
\* handler, if set, is invoked exactly once with the tokens of the whole remaining
\* text: the attempted command word first, none for an empty remainder.
C5_DefaultGetsAllTokens ==
    \A t \in Threads :
        (/\ Dispatched(t) /\ Addressed(frame[t].m) /\ NoCommandMatch(frame[t].m)
         /\ defaultHandler # NilHandler) =>
            frame[t].calls = <<Invocation("default", defaultHandler, Tokens(frame[t].m))>>

\* The default handler was invoked with the attempted command word as its first
\* argument, after a mention was stripped.
C5_Witness ==
    \E t \in Threads :
        /\ Dispatched(t) /\ NoCommandMatch(frame[t].m)
        /\ MentionLen(frame[t].m.MsgText) > 0
        /\ Len(Tokens(frame[t].m)) > 1
        /\ frame[t].calls # <<>>
        /\ frame[t].calls[1].via = "default"
        /\ frame[t].calls[1].fields[1] = Tokens(frame[t].m)[1]

\* C6: when an addressed message matches no command and no default handler is set,
\* ProcessMessage invokes no handler, does not panic, releases the read lock and
\* leaves the registry unchanged.
C6_UnhandledIsDropped ==
    [][\A t \in Threads :
          /\ (pc[t] = "pm_body" /\ pc'[t] # "pm_body"
                /\ Addressed(frame'[t].m) /\ NoCommandMatch(frame'[t].m)
                /\ defaultHandler = NilHandler) =>
                (frame'[t].calls = <<>> /\ pc'[t] = "pm_defer" /\ registry' = registry)
          /\ (pc[t] = "pm_defer" /\ pc'[t] # "pm_defer"
                /\ Addressed(frame[t].m) /\ NoCommandMatch(frame[t].m)
                /\ defaultHandler = NilHandler) =>
                (pc'[t] = "idle" /\ readers'[t] = 0 /\ wOwner' = wOwner
                    /\ registry' = registry /\ Alive')
      ]_vars

\* An addressed message with a command word matched nothing, no default handler is
\* set, and ProcessMessage is about to return without having invoked a handler.
C6_Witness ==
    \E t \in Threads :
        /\ pc[t] = "pm_defer"
        /\ Addressed(frame[t].m) /\ NoCommandMatch(frame[t].m)
        /\ Tokens(frame[t].m) # <<>>
        /\ defaultHandler = NilHandler
        /\ Len(commandNames) > 0
        /\ frame[t].calls = <<>>

\* C7: for a message that is not addressed, the free patterns are tested in
\* registration order against the full text and only the first matching pattern's
\* handler is invoked, with no arguments; if none matches nothing is invoked.
C7_FirstMatchingPattern ==
    \A t \in Threads :
        (Dispatched(t) /\ ~Addressed(frame[t].m)) =>
            /\ \A i, j \in 1..Len(patterns) : i < j => patterns[i].handle < patterns[j].handle
            /\ frame[t].calls =
                  IF PatternMatches(frame[t].m.MsgText) = {}
                  THEN <<>>
                  ELSE <<Invocation("pattern",
                                    patterns[Min(PatternMatches(frame[t].m.MsgText))].handle,
                                    <<>>)>>

\* Two free patterns match the text of a message that is not addressed, and the
\* one registered first was invoked.
C7_Witness ==
    \E t \in Threads :
        /\ Dispatched(t) /\ ~Addressed(frame[t].m)
        /\ Cardinality(PatternMatches(frame[t].m.MsgText)) > 1
        /\ frame[t].calls # <<>>
        /\ frame[t].calls[1].handler = patterns[Min(PatternMatches(frame[t].m.MsgText))].handle

\* C8: no free-pattern handler is invoked for an addressed message, even when its
\* pattern matches the text and no command matches.
C8_NoPatternWhenAddressed ==
    \A t \in Threads :
        (Dispatched(t) /\ Addressed(frame[t].m)) =>
            \A c \in 1..Len(frame[t].calls) :
                /\ frame[t].calls[c].via # "pattern"
                /\ \A i \in 1..Len(patterns) : patterns[i].handle # frame[t].calls[c].handler

\* A free pattern matches the text of an addressed message that matches no command,
\* and no handler was invoked.
C8_Witness ==
    \E t \in Threads :
        /\ Dispatched(t) /\ Addressed(frame[t].m) /\ NoCommandMatch(frame[t].m)
        /\ PatternMatches(frame[t].m.MsgText) # {}
        /\ frame[t].calls = <<>>

\* C9: a message takes the addressed path iff the mention prefixes its text or it is
\* direct; a matched mention is removed before tokenizing, also from a direct
\* message, and a message addressed by the flag alone is tokenized unmodified.
C9_AddressedPath ==
    \A t \in Threads :
        Dispatched(t) =>
            /\ (Addressed(frame[t].m) /\ defaultHandler # NilHandler) => frame[t].calls # <<>>
            /\ (~Addressed(frame[t].m) /\ PatternMatches(frame[t].m.MsgText) # {}) =>
                  frame[t].calls # <<>>
            /\ \A c \in 1..Len(frame[t].calls) :
                  /\ frame[t].calls[c].via = "pattern" <=> ~Addressed(frame[t].m)
                  /\ frame[t].calls[c].via = "default" =>
                        frame[t].calls[c].fields = Tokens(frame[t].m)
                  /\ frame[t].calls[c].via \in {"command", "regexp"} =>
                        /\ Tokens(frame[t].m) # <<>>
                        /\ frame[t].calls[c].fields = Tail(Tokens(frame[t].m))

\* A direct message that also carries the mention was dispatched on the text after
\* the mention.
C9_Witness ==
    \E t \in Threads :
        /\ Dispatched(t)
        /\ frame[t].m.MsgIsDirect /\ MentionLen(frame[t].m.MsgText) > 0
        /\ frame[t].calls # <<>>
        /\ frame[t].calls[1].via = "command"
        /\ Len(frame[t].calls[1].fields) = 1

\* What section 4.4 has an addressed message with the given tokens invoke.
AddressedDispatch(tokens) ==
    IF tokens # <<>> /\ ToLower(tokens[1]) \in DOMAIN commands
    THEN <<Invocation("command", heap[commands[ToLower(tokens[1])]].CmdHandler, Tail(tokens))>>
    ELSE IF tokens # <<>> /\ RegexpMatches(ToLower(tokens[1])) # {}
    THEN <<Invocation("regexp",
                      heap[regexpCommands[Min(RegexpMatches(ToLower(tokens[1])))]].CmdHandler,
                      Tail(tokens))>>
    ELSE IF defaultHandler # NilHandler
    THEN <<Invocation("default", defaultHandler, tokens)>>
    ELSE <<>>

\* The length of a mention whose leading '@' is optional; 0 when text begins with none.
OptionalAtMentionLen(text) ==
    IF StartsWithMention(text) THEN MentionLen(text)
    ELSE IF StartsWithMention(<<"@">> \o text) THEN MentionLen(<<"@">> \o text) - 1
    ELSE 0

\* C10 as stated: a message that is not direct and starts with the name or with '@'
\* and the name, a separator optionally after it, is dispatched as addressed on the
\* text after that prefix.
C10_OptionalAt ==
    \A t \in Threads :
        (/\ Dispatched(t) /\ ~frame[t].m.MsgIsDirect
         /\ OptionalAtMentionLen(frame[t].m.MsgText) > 0) =>
            frame[t].calls =
                AddressedDispatch(parseFields(
                    SubSeq(frame[t].m.MsgText, OptionalAtMentionLen(frame[t].m.MsgText) + 1,
                           Len(frame[t].m.MsgText))))

\* C10, amended: a message that is not direct is dispatched as addressed iff its text
\* starts with '@' and the name (case-insensitively), and then on the text after the
\* name and the whitespace, single ':' or ',' and whitespace that follow it; without
\* the '@' it is not addressed.
C10_MentionNeedsAt ==
    \A t \in Threads :
        (Dispatched(t) /\ ~frame[t].m.MsgIsDirect) =>
            IF StartsWithMention(frame[t].m.MsgText)
            THEN frame[t].calls = AddressedDispatch(Tokens(frame[t].m))
            ELSE \A c \in 1..Len(frame[t].calls) : frame[t].calls[c].via = "pattern"

\* A message that is not direct and starts with the mention, a ':' and a blank was
\* dispatched to the command named after them.
C10_Witness ==
    \E t \in Threads :
        /\ Dispatched(t) /\ ~frame[t].m.MsgIsDirect
        /\ StartsWithMention(frame[t].m.MsgText)
        /\ Len(frame[t].m.MsgText) > Len(BotName) + 2
        /\ frame[t].m.MsgText[Len(BotName) + 2] = ":"
        /\ frame[t].calls # <<>>
        /\ frame[t].calls[1].via = "command"

\* c is a word character: a letter, a digit or '_'.
IsWordChar(c) ==
    \/ \E i \in 1..Len(UpperChars) : c \in {UpperChars[i], LowerChars[i]}
    \/ c \in {"0","1","2","3","4","5","6","7","8","9","_"}

\* The positions at which the bot's name occurs in text, compared case-insensitively.
NameOccurrences(text) ==
    {i \in 1..(Len(text) - Len(BotName) + 1) :
        ToLower(SubSeq(text, i, i + Len(BotName) - 1)) = ToLower(BotName)}

\* The name occurs in text right after a word character.
NamePrecededByWord(text) ==
    \E i \in NameOccurrences(text) : i > 1 /\ IsWordChar(text[i - 1])

\* The name occurs in text right before a word character.
NameFollowedByWord(text) ==
    \E i \in NameOccurrences(text) :
        i + Len(BotName) <= Len(text) /\ IsWordChar(text[i + Len(BotName)])

\* The texts of the model that hold the name right after a word character, and those
\* that hold it right before one, computed once.
PrecededTexts == {text \in Texts : NamePrecededByWord(text)}
FollowedTexts == {text \in Texts : NameFollowedByWord(text)}

\* The texts of the model that start with '@', the name and a word character.
JoinedTexts ==
    {text \in Texts : /\ StartsWithMention(text)
                      /\ Len(text) > Len(BotName) + 1
                      /\ IsWordChar(text[Len(BotName) + 2])}

\* C11 as stated: a message that is not direct and holds the name only as part of a
\* longer word, word characters right before it or right after it, invokes no command
\* and no default handler.
C11_WordBoundary ==
    \A t \in Threads :
        (/\ Dispatched(t) /\ ~frame[t].m.MsgIsDirect
         /\ \/ frame[t].m.MsgText \in PrecededTexts
            \/ frame[t].m.MsgText \in FollowedTexts) =>
            \A c \in 1..Len(frame[t].calls) : frame[t].calls[c].via = "pattern"

\* C11, amended: a message that is not direct, does not start with '@' and the name
\* and holds the name right after word characters invokes no command and no default
\* handler; a message that is not direct and starts with '@' and the name with a word
\* character right after it is addressed, and is dispatched on the text after the name.
C11_NoBoundaryAfterName ==
    \A t \in Threads :
        (Dispatched(t) /\ ~frame[t].m.MsgIsDirect) =>
            LET text == frame[t].m.MsgText
                n == Len(BotName)
            IN  /\ (text \in PrecededTexts /\ ~StartsWithMention(text)) =>
                      \A c \in 1..Len(frame[t].calls) : frame[t].calls[c].via = "pattern"
                /\ text \in JoinedTexts =>
                      frame[t].calls =
                          AddressedDispatch(parseFields(SubSeq(text, n + 2, Len(text))))

\* A message that is not direct and starts with '@', the name and a word character
\* right after it was handed to the default handler, the joined word first.
C11_Witness ==
    \E t \in Threads :
        /\ Dispatched(t) /\ ~frame[t].m.MsgIsDirect
        /\ frame[t].m.MsgText \in JoinedTexts
        /\ Len(frame[t].calls) = 1
        /\ frame[t].calls[1].via = "default"
        /\ Len(frame[t].calls[1].fields) = 2

\* The text of message m right after '@' and the name.
AfterName(m) == SubSeq(m.MsgText, Len(BotName) + 2, Len(m.MsgText))

\* Message m is not direct and its text is '@', the name and, with nothing between
\* them, the name of an exact command followed by further words.
JoinedCommand(m) ==
    /\ ~m.MsgIsDirect
    /\ StartsWithMention(m.MsgText)
    /\ AfterName(m) # <<>>
    /\ ~IsRegexpSpace(AfterName(m)[1])
    /\ AfterName(m)[1] \notin {":", ","}
    /\ Len(parseFields(AfterName(m))) > 1
    /\ ToLower(parseFields(AfterName(m))[1]) \in DOMAIN commands

\* C12: a message that is not direct and whose text is '@', the name and right after
\* it, without a separator, the name of a registered command and further words is
\* addressed: that command's handler is invoked with the further words, and no other
\* handler is invoked.
C12_SeparatorOptional ==
    \A t \in Threads :
        (Dispatched(t) /\ JoinedCommand(frame[t].m)) =>
            LET tokens == parseFields(AfterName(frame[t].m)) IN
            frame[t].calls =
                <<Invocation("command", heap[commands[ToLower(tokens[1])]].CmdHandler,
                             Tail(tokens))>>

\* '@botthx you' was dispatched while thx was registered, and its handler got "you".
C12_Witness ==
    \E t \in Threads :
        /\ Dispatched(t) /\ JoinedCommand(frame[t].m)
        /\ Len(frame[t].calls) = 1
        /\ frame[t].calls[1].via = "command"
        /\ frame[t].calls[1].fields = << <<"y","o","u">> >>

\* C13: when the handler a ProcessMessage call invoked has panicked, the registry is
\* as it was before the handler ran, and the deferred functions of the call recover
\* the panic and release the read lock: the call returns, the process lives on, the
\* thread holds no read lock, and the registry and the write side of the lock are
\* untouched, so that later calls find the dispatcher as if the message had never
\* been sent.
C13_PanicRecovered ==
    [][\A t \in Threads :
          /\ (pc[t] = "pm_body" /\ pc'[t] # "pm_body" /\ frame'[t].panicked) =>
                (registry' = registry /\ wOwner' = wOwner /\ pc'[t] = "pm_defer")
          /\ (pc[t] = "pm_defer" /\ frame[t].panicked /\ pc'[t] # "pm_defer") =>
                (/\ pc'[t] = "idle"
                 /\ Alive'
                 /\ readers'[t] = 0
                 /\ wOwner' = wOwner
                 /\ registry' = registry)]_vars

\* The handler of an exact command has panicked in a ProcessMessage call that holds
\* the read lock.
C13_Witness ==
    \E t \in Threads :
        /\ pc[t] = "pm_defer"
        /\ frame[t].panicked
        /\ readers[t] = 1
        /\ frame[t].calls # <<>>
        /\ frame[t].calls[1].via = "command"

\* Thread t is inside a call of the dispatcher.
InCall(t) == pc[t] \notin {"idle", "panic"}

\* The write lock is owned, if at all, by a thread that is in the locked part of a
\* registration call: no call has returned with the lock.
NoLockLeft ==
    wOwner # 0 =>
        pc[wOwner] \in {"hc_body", "hcr_body", "hca_body", "hcar_body", "hr_body", "sdh_body"}

\* C14 as stated, for the states in which the process lives and no returned call has
\* kept the lock: while some call of the dispatcher is in progress, some call in
\* progress can take its next step (no set of calls waits for one another for ever).
C14_NoDeadlock ==
    (Alive /\ NoLockLeft /\ \E t \in ConcThreads : InCall(t)) =>
        \E t \in ConcThreads : InCall(t) /\ ENABLED Step(t)

\* Thread t returns from the locked part of the registration call at position body.
Returns(t, body) == pc[t] = body /\ pc'[t] = "idle"

\* C15: when a registration call returns, the registry holds what it registered
\* (the command under its lower-cased name, the regexp command and the free pattern
\* at the end of their lists, the default handler); from then on an entry leaves the
\* registry only by a later registration under the same name or of another default
\* handler; and every ProcessMessage call makes its dispatch decision on the
\* registry of the moment it runs.  So a ProcessMessage call that starts after a
\* registration has returned dispatches on a registry that holds the entry.
C15_RegistrationsVisible ==
    [][/\ \A t \in ConcThreads :
             /\ Returns(t, "hc_body") =>
                   LET k == ToLower(frame[t].cmd.CmdName) IN
                   /\ k \in DOMAIN commands'
                   /\ heap'[commands'[k]].CmdHandler = frame[t].cmd.CmdHandler
                   /\ heap'[commands'[k]].CmdName = frame[t].cmd.CmdName
             /\ Returns(t, "hcr_body") =>
                   /\ regexpCommands' # <<>>
                   /\ LET d == heap'[regexpCommands'[Len(regexpCommands')]] IN
                      d.cmdRegexp = frame[t].exp /\ d.CmdHandler = frame[t].cmd.CmdHandler
             /\ (Returns(t, "hr_body") /\ ~frame[t].exp.nil) =>
                   /\ patterns' # <<>>
                   /\ patterns'[Len(patterns')] =
                          [exp |-> frame[t].exp, handle |-> frame[t].handler]
             /\ Returns(t, "sdh_body") => defaultHandler' = frame[t].handler
             /\ (pc[t] = "pm_body" /\ pc'[t] # "pm_body") =>
                   frame'[t].calls = ProcessMessageBody(frame'[t].m)
       /\ \A k \in DOMAIN commands :
             /\ k \in DOMAIN commands'
             /\ commands'[k] # commands[k] =>
                   \E t \in ConcThreads :
                       Returns(t, "hc_body") /\ ToLower(frame[t].cmd.CmdName) = k
       /\ \A i \in 1..Len(heap) :
             /\ i <= Len(heap')
             /\ heap'[i].CmdHandler = heap[i].CmdHandler
             /\ heap'[i].CmdName = heap[i].CmdName
             /\ heap'[i].cmdRegexp = heap[i].cmdRegexp
       /\ Len(regexpCommands') >= Len(regexpCommands)
       /\ SubSeq(regexpCommands', 1, Len(regexpCommands)) = regexpCommands
       /\ Len(patterns') >= Len(patterns)
       /\ SubSeq(patterns', 1, Len(patterns)) = patterns
       /\ defaultHandler' # defaultHandler =>
             \E t \in ConcThreads : Returns(t, "sdh_body")]_vars

\* A ProcessMessage call has dispatched to the exact command registered before it,
\* while the other thread is inside a registration call.
C15_Witness ==
    \E t, u \in ConcThreads :
        /\ t # u
        /\ pc[t] = "pm_defer"
        /\ Len(frame[t].calls) = 1
        /\ frame[t].calls[1].via = "command"
        /\ frame[t].calls[1].handler = heap[commands[S_thanks]].CmdHandler
        /\ pc[u] \in {"hc_lock", "hcr_lock", "hca_lock", "hcar_lock", "hr_lock", "sdh_lock",
                      "ehc_read"}

\* Thread t is in HandleCommandAlias or HandleCommandAliasRegexp after the part that
\* looked the original up and listed the alias name on it, and before the end of the
\* HandleCommand or HandleCommandRegexp call that registers the alias command.
MidAlias(t) ==
    /\ frame[t].originalName # <<>>
    /\ pc[t] \in {"hc_lock", "hc_body", "hcr_lock", "hcr_body"}

\* C16 as stated, for the alias registrations: from its first read of the registry
\* to its last write a registration is alone with the registry; no other thread holds
\* the read lock (is inside ProcessMessage) or owns the write lock in between, so none
\* can see the alias name listed on the original while the alias command is missing.
C16_RegistrationAlone ==
    \A t \in ConcThreads :
        MidAlias(t) =>
            \A u \in ConcThreads \ {t} : readers[u] = 0 /\ wOwner # u

\* C17: no step changes the exact-command map, the regexp-command list, the
\* command-name list, an alias-name list (the documents of the heap), the free-pattern
\* list or the default handler while a ProcessMessage call holds the read lock.
C17_NoMutationUnderReadLock ==
    [][registry' # registry => \A u \in ConcThreads : readers[u] = 0]_vars

\* A registration that has called Lock waits in front of its writes while a
\* ProcessMessage call of the other thread holds the read lock.
C17_Witness ==
    \E t, u \in ConcThreads :
        /\ t # u
        /\ wOwner = t
        /\ pc[t] \in {"hc_body", "hcr_body", "hca_body", "hcar_body", "hr_body", "sdh_body"}
        /\ readers[u] > 0
        /\ pc[u] \in {"pm_body", "pm_defer"}

\* C18: while the process lives and no registration holds or awaits the write lock,
\* a ProcessMessage call that is about to take the read lock can take it, whatever
\* read locks the other calls hold, and a ProcessMessage call that holds the read
\* lock can always go on to its handler and to its return: ProcessMessage calls do
\* not wait for one another.
C18_ReadersDoNotBlock ==
    \A t \in ConcThreads :
        /\ (Alive /\ wOwner = 0 /\ pc[t] = "pm_rlock") => ENABLED ProcessMessage_RLock(t)
        /\ (Alive /\ pc[t] = "pm_body") => ENABLED ProcessMessage_Body(t)
        /\ (Alive /\ pc[t] = "pm_defer") => ENABLED ProcessMessage_Return(t)

\* Two ProcessMessage calls hold the read lock at once, each having invoked a handler.
C18_Witness ==
    \E t, u \in ConcThreads :
        /\ t # u
        /\ pc[t] = "pm_defer" /\ pc[u] = "pm_defer"
        /\ readers[t] = 1 /\ readers[u] = 1
        /\ frame[t].calls # <<>> /\ frame[u].calls # <<>>
        /\ wOwner = 0

\* C19 as stated: a call that has returned, a rejected HandleCommandAlias or
\* HandleCommandAliasRegexp among them, has released the lock, so the next call of
\* the caller finds the lock free and can complete.
C19_RejectionReleasesLock ==
    \A t \in Threads : (Alive /\ pc[t] = "idle") => (wOwner = 0 /\ readers[t] = 0)

\* The HandleCommandAlias call of thread t is one the specification rejects: the
\* original is not registered, the alias equals the original case-insensitively, or
\* the alias is already in the alias list of the original.
AliasRejected(t) ==
    LET lowerOrigName == ToLower(frame[t].originalName) IN
    \/ lowerOrigName \notin DOMAIN commands
    \/ lowerOrigName = ToLower(frame[t].aliasName)
    \/ \E i \in 1..Len(heap[commands[lowerOrigName]].cmdAliasNames) :
           heap[commands[lowerOrigName]].cmdAliasNames[i] = frame[t].aliasName

\* C20: a HandleCommandAlias call whose original is not registered, whose alias
\* equals the original case-insensitively or whose alias is already listed on the
\* original ends without calling HandleCommand and leaves the exact-command map, the
\* command-name list, the regexp-command list and every document with its alias list
\* as they were.
C20_RejectedAliasChangesNothing ==
    [][\A t \in Threads :
          (pc[t] = "hca_body" /\ pc'[t] # "hca_body" /\ AliasRejected(t)) =>
              /\ pc'[t] = "idle"
              /\ commands' = commands
              /\ commandNames' = commandNames
              /\ regexpCommands' = regexpCommands
              /\ heap' = heap
              /\ registry' = registry]_vars

\* HandleCommandAlias holds the write lock for an alias that is already listed on
\* its original and registered as a command: the call about to be rejected.
C20_Witness ==
    \E t \in Threads :
        /\ pc[t] = "hca_body"
        /\ WriteLocked(t)
        /\ ToLower(frame[t].originalName) \in DOMAIN commands
        /\ ToLower(frame[t].originalName) # ToLower(frame[t].aliasName)
        /\ AliasRejected(t)
        /\ ToLower(frame[t].aliasName) \in DOMAIN commands

\* The elements of a sequence.
Range(seq) == {seq[i] : i \in 1..Len(seq)}

\* Thread t ends the HandleCommand call that HandleCommandAlias makes for the alias.
AliasRegistered(t) ==
    pc[t] = "hc_body" /\ frame[t].originalName # <<>> /\ pc'[t] = "idle"

\* The exact-command map holds, under the lower-cased alias name, a hidden command
\* with the handler, the description and the usage of the command under the key o,
\* and the alias name is in the alias-name list of that command.
AliasOf(aliasName, o) ==
    /\ ToLower(aliasName) \in DOMAIN commands
    /\ o \in DOMAIN commands
    /\ LET ad == heap[commands[ToLower(aliasName)]]
           od == heap[commands[o]]
       IN  /\ ad.CmdIsHidden
           /\ ~IsRegexpCommand(ad)
           /\ ad.CmdName = aliasName
           /\ ad.CmdHandler = od.CmdHandler
           /\ ad.CmdDescription = od.CmdDescription
           /\ ad.CmdUsage = od.CmdUsage
           /\ aliasName \in Range(od.cmdAliasNames)

\* C21: when a successful HandleCommandAlias(original, alias) ends, the exact-command
\* map holds under the lower-cased alias a hidden command with the handler, the
\* description and the usage of the original, and the alias is in the alias-name list
\* of the original; and whenever the registry is so, an addressed message whose first
\* token is the alias invokes the handler of the original with the remaining tokens,
\* as one whose first token is the original name does.
C21_AliasSharesOriginal ==
    /\ [][\A t \in Threads :
             AliasRegistered(t) =>
                 \A n \in {frame[t].aliasName}, o \in {ToLower(frame[t].originalName)} :
                     AliasOf(n, o)']_vars
    /\ [](\A t \in Threads :
             (Dispatched(t) /\ Addressed(frame[t].m) /\ Tokens(frame[t].m) # <<>>) =>
                 \A o \in DOMAIN commands :
                     \A n \in Range(heap[commands[o]].cmdAliasNames) :
                         (/\ AliasOf(n, o)
                          /\ ToLower(Tokens(frame[t].m)[1]) \in {ToLower(n), o}) =>
                             frame[t].calls =
                                 <<Invocation("command", heap[commands[o]].CmdHandler,
                                              Tail(Tokens(frame[t].m)))>>)

\* After HandleCommandAlias(thanks, ...) a message whose first token is the alias thx
\* was dispatched to the handler of thanks, with the token after the alias.
C21_Witness ==
    \E t \in Threads :
        /\ Dispatched(t) /\ Addressed(frame[t].m)
        /\ Len(Tokens(frame[t].m)) = 2
        /\ ToLower(Tokens(frame[t].m)[1]) = S_thx
        /\ S_thx \in DOMAIN commands /\ S_thanks \in DOMAIN commands
        /\ AliasOf(heap[commands[S_thx]].CmdName, S_thanks)
        /\ frame[t].calls =
              <<Invocation("command", heap[commands[S_thanks]].CmdHandler,
                           Tail(Tokens(frame[t].m)))>>

\* C22: the keys of the exact-command map are unique case-insensitively and the
\* command-name list holds no name twice; and when a HandleCommand call ends, first
\* registration or not, the process lives, the entry under the lower-cased name
\* carries the handler, name, description, usage and hidden flag of this call, and
\* every other key maps to what it mapped to before.
C22_LastRegistrationWins ==
    /\ [](/\ \A k1, k2 \in DOMAIN commands : ToLower(k1) = ToLower(k2) => k1 = k2
          /\ \A i, j \in 1..Len(commandNames) :
                 commandNames[i] = commandNames[j] => i = j)
    /\ [][\A t \in Threads :
             (pc[t] = "hc_body" /\ pc'[t] # "hc_body") =>
                 LET cmd == frame[t].cmd
                     k == ToLower(cmd.CmdName)
                 IN  /\ pc'[t] = "idle" /\ Alive'
                     /\ DOMAIN commands' = DOMAIN commands \cup {k}
                     /\ \A j \in DOMAIN commands \ {k} : commands'[j] = commands[j]
                     /\ heap'[commands'[k]] =
                           HandlerDoc(cmd.CmdHandler, cmd.CmdName, cmd.CmdDescription,
                                      cmd.CmdUsage, cmd.CmdIsHidden)
                     /\ \A i \in 1..Len(heap) : heap'[i] = heap[i]
                     /\ k \in Range(commandNames')]_vars

\* A name was registered twice, in two spellings and with two handlers: the map
\* holds the later document.
C22_Witness ==
    \E t \in Threads :
        /\ pc[t] = "idle"
        /\ \E k \in DOMAIN commands :
              \E i \in 1..(commands[k] - 1) :
                  /\ ~IsRegexpCommand(heap[i])
                  /\ ToLower(heap[i].CmdName) = k
                  /\ heap[i].CmdName # heap[commands[k]].CmdName
                  /\ heap[i].CmdHandler # heap[commands[k]].CmdHandler

\* What the caller holding the map that Commands returned to thread t sees in it:
\* under each key the document, none for a nil value.
SnapshotView(t) ==
    [k \in DOMAIN frame[t].snapshot |->
        IF frame[t].snapshot[k] = 0 THEN NoDoc ELSE heap[frame[t].snapshot[k]]]

\* C23 as stated: the map that Commands returns holds what the exact-command map
\* holds at that moment; no step the caller makes on the returned map or on a value
\* got from it changes the registry; and no registration made afterwards changes
\* what a caller sees in a map returned before.
C23_SnapshotIndependent ==
    [][/\ \A t \in ConcThreads :
             (pc[t] = "cm_body" /\ pc'[t] = "cm_held") =>
                 SnapshotView(t)' = [k \in DOMAIN commands |-> heap[commands[k]]]
       /\ (\/ pc' = pc /\ \E t \in ConcThreads : pc[t] = "cm_held"
           \/ \E t \in ConcThreads : pc[t] = "cm_add" /\ pc'[t] # pc[t]) =>
              registry' = registry
       /\ \A t \in ConcThreads :
             (pc[t] = "cm_held" /\ pc' # pc /\ pc'[t] = "cm_held") =>
                 SnapshotView(t)' = SnapshotView(t)]_vars

\* Thread t is in a ProcessMessage call whose help handler has sent its text.
HelpSent(t) == pc[t] = "pm_defer" /\ frame[t].sent # <<>>

\* The documents help has to list: the exact commands and the regexp commands that
\* are not hidden.
Listed ==
    {d \in {heap[commands[k]] : k \in DOMAIN commands}
            \cup {heap[regexpCommands[i]] : i \in 1..Len(regexpCommands)} :
        ~d.CmdIsHidden}

\* C24 as stated: the text the help command sends for zero arguments is the list
\* followed by the hint line, and the list holds one line, name and description, for
\* every exact command and every regexp command that is not hidden, no line twice,
\* no line of a hidden command, in the order of the names.
C24_HelpListsEveryCommand ==
    \A t \in Threads :
        (HelpSent(t) /\ frame[t].calls[1].fields = <<>>) =>
            LET entries == frame[t].sent[1].entries IN
            /\ frame[t].sent[1].kind = "available commands"
            /\ \A d \in Listed :
                  Cardinality({i \in 1..Len(entries) :
                                  entries[i] = <<d.CmdName, d.CmdDescription>>}) = 1
            /\ \A i \in 1..Len(entries) :
                  \E d \in Listed : entries[i] = <<d.CmdName, d.CmdDescription>>
            /\ \A i, j \in 1..Len(entries) :
                  i < j => ~StrLess(ToLower(entries[j][1]), ToLower(entries[i][1]))

\* C25: the help command with an argument sends exactly one text.  It is the help of
\* the exact command under the lower-cased argument when there is one, hidden or not;
\* else of the first regexp command, in registration order, whose pattern matches the
\* lower-cased argument; the text holds the description, the alias names and the
\* usage lines of that command.  When there is neither, the text is the 'unrecognized
\* command' reply with the lower-cased argument.
C25_HelpForOneCommand ==
    \A t \in Threads :
        (HelpSent(t) /\ frame[t].calls[1].fields # <<>>) =>
            LET cmdName == ToLower(frame[t].calls[1].fields[1])
                help(d) == Sent("command help", cmdName, d.CmdDescription,
                                d.cmdAliasNames, d.CmdUsage, <<>>)
            IN  /\ Len(frame[t].sent) = 1
                /\ frame[t].sent[1] =
                      IF cmdName \in DOMAIN commands
                      THEN help(heap[commands[cmdName]])
                      ELSE IF RegexpMatches(cmdName) # {}
                      THEN help(heap[regexpCommands[Min(RegexpMatches(cmdName))]])
                      ELSE Sent("unrecognized command", cmdName, <<>>, <<>>, <<>>, <<>>)

\* 'help Thx' was answered with the help of thx, which is hidden.
C25_Witness ==
    \E t \in Threads :
        /\ HelpSent(t)
        /\ frame[t].calls[1].fields = <<S_Thx>>
        /\ S_thx \in DOMAIN commands
        /\ heap[commands[S_thx]].CmdIsHidden
        /\ frame[t].sent[1].kind = "command help"
        /\ frame[t].sent[1].name = S_thx

\* What the registry holds, whatever the addresses of the documents: the document
\* under each key, the regexp documents in their order, the names, the free patterns
\* and the default handler.
RegistryView ==
    <<[k \in DOMAIN commands |-> heap[commands[k]]],
      [i \in 1..Len(regexpCommands) |-> heap[regexpCommands[i]]],
      commandNames, patterns, defaultHandler>>

\* Thread t is at the end of the HandleCommand call that EnableHelpCommand makes.
EnablingHelp(t) == pc[t] = "hc_body" /\ frame[t].cmd.CmdHandler = HelpHandler

\* C26: when an EnableHelpCommand call ends, in whatever registry, the key help maps
\* to the built-in help command, which is not hidden; help is in the command-name
\* list once; every other key, the regexp commands, the free patterns and the default
\* handler are as before.  On an empty registry the result is one command and one
\* name, and when help was the built-in command already, the registry holds after the
\* call what it held before.
C26_EnableHelpIdempotent ==
    [][\A t \in Threads :
          (EnablingHelp(t) /\ pc'[t] # "hc_body") =>
              /\ pc'[t] = "idle" /\ Alive'
              /\ helpCommandName \in DOMAIN commands'
              /\ heap'[commands'[helpCommandName]] = defaultHelpHandlerDoc
              /\ ~heap'[commands'[helpCommandName]].CmdIsHidden
              /\ Cardinality({i \in 1..Len(commandNames') :
                                 commandNames'[i] = helpCommandName}) = 1
              /\ Range(commandNames') = Range(commandNames) \cup {helpCommandName}
              /\ Len(commandNames') =
                    Len(commandNames) + (IF helpCommandName \in Range(commandNames) THEN 0 ELSE 1)
              /\ DOMAIN commands' = DOMAIN commands \cup {helpCommandName}
              /\ \A k \in DOMAIN commands \ {helpCommandName} :
                    commands'[k] = commands[k] /\ heap'[commands'[k]] = heap[commands[k]]
              /\ regexpCommands' = regexpCommands
              /\ \A i \in 1..Len(regexpCommands) :
                    heap'[regexpCommands[i]] = heap[regexpCommands[i]]
              /\ patterns' = patterns /\ defaultHandler' = defaultHandler
              /\ (commands = <<>> /\ commandNames = <<>>) =>
                    (Cardinality(DOMAIN commands') = 1 /\ Len(commandNames') = 1)
              /\ (/\ helpCommandName \in DOMAIN commands
                  /\ heap[commands[helpCommandName]] = defaultHelpHandlerDoc) =>
                    RegistryView' = RegistryView]_vars

\* A second EnableHelpCommand call is about to write, into a registry that holds
\* the built-in help command and another command.
C26_Witness ==
    \E t \in Threads :
        /\ EnablingHelp(t)
        /\ WriteLocked(t)
        /\ helpCommandName \in DOMAIN commands
        /\ heap[commands[helpCommandName]] = defaultHelpHandlerDoc
        /\ Len(commandNames) > 1

\* Thread t is in a HandleCommandRegexp call that was given a nil expression.
NilRegexpCall(t) == pc[t] \in {"hcr_lock", "hcr_body"} /\ frame[t].exp.nil

\* C27: a HandleCommandRegexp call with a nil expression ends in a panic, which ends
\* the program; no step of the call changes the regexp commands, the command names,
\* the exact commands or a document, and the panic leaves the write lock free.  A
\* pattern string that does not compile panics in HandleCommandPattern before the
\* lock is asked for, with the registry as it was.
C27_NilRegexpPanics ==
    /\ [][\A t \in Threads :
            /\ (NilRegexpCall(t) /\ pc'[t] # pc[t]) =>
                  /\ regexpCommands' = regexpCommands /\ commandNames' = commandNames
                  /\ commands' = commands /\ heap' = heap
                  /\ pc[t] = "hcr_lock" => pc'[t] = "hcr_body"
                  /\ pc[t] = "hcr_body" => (pc'[t] = "panic" /\ ~Alive' /\ wOwner' = 0)
            /\ (pc[t] = "idle" /\ pc'[t] = "panic") =>
                  (registry' = registry /\ wOwner' = wOwner)]_vars
    /\ [][~Alive => UNCHANGED vars]_vars

\* A HandleCommandRegexp call with a nil expression holds the write lock and is about
\* to fail, in a registry that holds a regexp command.
C27_Witness ==
    \E t \in Threads :
        /\ pc[t] = "hcr_body" /\ frame[t].exp.nil
        /\ WriteLocked(t)
        /\ Len(regexpCommands) > 0

\* Thread t is in HandleCommandAliasRegexp under the lock with a valid expression, an
\* original that exists and an alias name that the original already lists.
DuplicateAlias(t) ==
    /\ pc[t] = "hcar_body"
    /\ ~frame[t].exp.nil
    /\ ToLower(frame[t].originalName) \in DOMAIN commands
    /\ frame[t].aliasName # <<>>
    /\ frame[t].aliasName
          \in Range(heap[commands[ToLower(frame[t].originalName)]].cmdAliasNames)

\* Thread t is in the HandleCommandRegexp call that HandleCommandAliasRegexp makes.
AliasRegexpRegistering(t) == pc[t] = "hcr_body" /\ frame[t].originalName # <<>>

\* C28: HandleCommandAliasRegexp with a valid expression, an existing original and an
\* alias name already in the original's alias-name list changes no document (the
\* alias-name list stays as it is) and no list, and goes on to HandleCommandRegexp
\* with a hidden document named after the alias that carries the original's handler,
\* description and usage; that call appends the document, with the expression, to the
\* end of the regexp-command list and leaves every other document as it is.
C28_DuplicateAliasStillAddsRegexp ==
    [][\A t \in Threads :
          /\ (DuplicateAlias(t) /\ pc'[t] # pc[t]) =>
                LET od == heap[commands[ToLower(frame[t].originalName)]] IN
                /\ heap' = heap
                /\ UNCHANGED <<commands, regexpCommands, commandNames>>
                /\ pc'[t] = "hcr_lock"
                /\ frame'[t].exp = frame[t].exp
                /\ frame'[t].originalName = frame[t].originalName
                /\ frame'[t].cmd.CmdName = frame[t].aliasName
                /\ frame'[t].cmd.CmdIsHidden
                /\ frame'[t].cmd.CmdHandler = od.CmdHandler
                /\ frame'[t].cmd.CmdDescription = od.CmdDescription
                /\ frame'[t].cmd.CmdUsage = od.CmdUsage
          /\ (pc[t] = "hcr_lock" /\ frame[t].originalName # <<>> /\ pc'[t] # pc[t]) =>
                (pc'[t] = "hcr_body" /\ frame'[t] = frame[t] /\ registry' = registry)
          /\ (AliasRegexpRegistering(t) /\ pc'[t] # pc[t]) =>
                /\ pc'[t] = "idle" /\ Alive'
                /\ Len(regexpCommands') = Len(regexpCommands) + 1
                /\ SubSeq(regexpCommands', 1, Len(regexpCommands)) = regexpCommands
                /\ \A a \in 1..Len(heap) : heap'[a] = heap[a]
                /\ commands' = commands
                /\ LET nd == heap'[regexpCommands'[Len(regexpCommands')]] IN
                   /\ regexpCommands'[Len(regexpCommands')] > Len(heap)
                   /\ nd.CmdIsHidden
                   /\ nd.cmdRegexp = frame[t].exp
                   /\ nd.CmdName = frame[t].aliasName
                   /\ nd.CmdHandler = frame[t].cmd.CmdHandler
                   /\ nd.CmdDescription = frame[t].cmd.CmdDescription
                   /\ nd.CmdUsage = frame[t].cmd.CmdUsage]_vars

\* HandleCommandAliasRegexp is about to append a regexp command for an alias name
\* under which a hidden regexp command was registered before: the name was in the
\* original's alias-name list when this call began.
C28_Witness ==
    \E t \in Threads :
        /\ AliasRegexpRegistering(t)
        /\ WriteLocked(t)
        /\ frame[t].aliasName # <<>>
        /\ ToLower(frame[t].originalName) \in DOMAIN commands
        /\ frame[t].aliasName
              \in Range(heap[commands[ToLower(frame[t].originalName)]].cmdAliasNames)
        /\ \E i \in 1..Len(regexpCommands) :
              /\ heap[regexpCommands[i]].CmdName = frame[t].aliasName
              /\ heap[regexpCommands[i]].CmdIsHidden

\* Thread t is in a HandleCommandAliasRegexp call that was given a nil expression.
NilAliasRegexpCall(t) == pc[t] \in {"hcar_lock", "hcar_body"} /\ frame[t].exp.nil

\* Thread t begins, with this step, an alias registration by a pattern that yields
\* no expression.
BadAliasPatternCall(t) ==
    /\ pc[t] = "idle" /\ pc'[t] \notin {"idle", "hca_lock"}
    /\ frame'[t].originalName # <<>>
    /\ frame'[t].exp.nil

\* No step of a HandleCommandAliasRegexp call with a nil expression changes the
\* regexp commands, the command names, the exact commands or a document (so the
\* original's alias names stay), and the call returns without a panic.
NilAliasRegexpReturns(t) ==
    (NilAliasRegexpCall(t) /\ pc'[t] # pc[t]) =>
        /\ regexpCommands' = regexpCommands /\ commandNames' = commandNames
        /\ commands' = commands /\ heap' = heap
        /\ Alive'
        /\ pc[t] = "hcar_lock" => pc'[t] = "hcar_body"
        /\ pc[t] = "hcar_body" => pc'[t] = "idle"

\* C29 as stated: an alias regexp registration with a nil or unparsable pattern,
\* through HandleCommandAliasRegexp or HandleCommandAliasPattern, does not panic and
\* leaves the regexp commands, the command names and the original's alias names
\* unchanged.
C29_BadAliasPatternNonFatal ==
    [][\A t \in Threads :
          /\ NilAliasRegexpReturns(t)
          /\ BadAliasPatternCall(t) =>
                (pc'[t] = "hcar_lock" /\ Alive' /\ registry' = registry)]_vars

\* The number of double quotes in a string.
QuoteCount(input) == Cardinality({i \in 1..Len(input) : IsQuote(input[i])})

RECURSIVE QuotedFieldsFrom(_, _, _, _, _)
\* The tokens the statement asks for, reading input from 0-based index i on: outside
\* quotes a word runs from wordStart up to a space or a quote; a quote opens a
\* stretch at quoteStart that runs to the next quote and is one token.
QuotedFieldsFrom(input, i, fields, wordStart, quoteStart) ==
    IF i >= Len(input)
    THEN IF quoteStart # -1 THEN Append(fields, Slice(input, quoteStart, Len(input)))
         ELSE IF wordStart # -1 THEN Append(fields, Slice(input, wordStart, Len(input)))
         ELSE fields
    ELSE LET r == input[i + 1] IN
         IF quoteStart # -1
         THEN IF IsQuote(r)
              THEN QuotedFieldsFrom(input, i + 1,
                                    Append(fields, Slice(input, quoteStart, i)), -1, -1)
              ELSE QuotedFieldsFrom(input, i + 1, fields, -1, quoteStart)
         ELSE LET closed == IF wordStart # -1
                            THEN Append(fields, Slice(input, wordStart, i))
                            ELSE fields
              IN  IF IsQuote(r) THEN QuotedFieldsFrom(input, i + 1, closed, -1, i + 1)
                  ELSE IF IsSpace(r) THEN QuotedFieldsFrom(input, i + 1, closed, -1, -1)
                  ELSE IF wordStart = -1
                       THEN QuotedFieldsFrom(input, i + 1, fields, i, -1)
                       ELSE QuotedFieldsFrom(input, i + 1, fields, wordStart, -1)

\* The tokens of an input after the statement.
QuotedFields(input) == QuotedFieldsFrom(input, 0, <<>>, -1, -1)

\* C30: for every input in which each double quote has its partner, the fields that
\* parseFields returns are, in order, the interior of each quoted stretch as one
\* token, spaces kept and quotes removed, wherever its opening quote stands, and
\* the words between runs of spaces of the text outside the quotes.
C30_QuotedStretchIsOneToken ==
    \A t \in Threads :
        (pc[t] = "pf_done" /\ QuoteCount(frame[t].input) % 2 = 0) =>
            frame[t].fields = QuotedFields(frame[t].input)

\* The characters of a string that satisfy keep, in order.
SelectChars(str, keep(_)) == SelectSeq(str, keep)

RECURSIVE Concat(_)
\* The concatenation of the strings of a sequence.
Concat(strs) == IF strs = <<>> THEN <<>> ELSE Head(strs) \o Concat(Tail(strs))

\* A character that is neither white space nor a double quote.
IsContent(c) == ~IsSpace(c) /\ ~IsQuote(c)

\* The characters of the tokens, in order, white space removed, are the input
\* without its white space and its double quotes.
NoContentDropped(input, fields) ==
    SelectChars(Concat(fields), IsContent) = SelectChars(input, IsContent)

\* The 0-based index just after the last double quote of a string that has one.
AfterLastQuote(input) ==
    CHOOSE i \in 1..Len(input) :
        IsQuote(input[i]) /\ \A j \in (i + 1)..Len(input) : ~IsQuote(input[j])

\* C31: parseFields drops no content: the characters of the returned tokens,
\* concatenated in order with white space removed, are the input without white space
\* and double quotes; and when the last double quote of the input has no partner, the
\* text after it up to the end of the input is the last token.
C31_NoContentDropped ==
    \A t \in Threads :
        pc[t] = "pf_done" =>
            LET input == frame[t].input
                fields == frame[t].fields
            IN  /\ NoContentDropped(input, fields)
                /\ QuoteCount(input) % 2 = 1 =>
                      /\ fields # <<>>
                      /\ fields[Len(fields)] = Slice(input, AfterLastQuote(input), Len(input))

\* C32: for the empty string and for a string of white space only, parseFields
\* returns the empty sequence; a token that is the empty string is not in it.
C32_BlankGivesNoFields ==
    \A t \in Threads :
        (pc[t] = "pf_done" /\ \A i \in 1..Len(frame[t].input) : IsSpace(frame[t].input[i])) =>
            frame[t].fields = <<>>

\* parseFields has returned for an input of spaces and tabs.
C32_Witness ==
    \E t \in Threads :
        /\ pc[t] = "pf_done"
        /\ Len(frame[t].input) >= 3
        /\ \A i \in 1..Len(frame[t].input) : IsSpace(frame[t].input[i])
        /\ \E i, j \in 1..Len(frame[t].input) : frame[t].input[i] # frame[t].input[j]
        /\ frame[t].fields = <<>>

\* A sequence of strings in strictly ascending order.
StrictlyAscending(strs) == \A i \in 1..(Len(strs) - 1) : StrLess(strs[i], strs[i + 1])

\* C33: in every state that registration operations lead to, the command-name list
\* is in strictly ascending order (so it has no duplicates), the alias-name list of
\* every command document is in strictly ascending order, and every key of the
\* exact-command map is in the command-name list.
C33_NamesSortedAndComplete ==
    /\ StrictlyAscending(commandNames)
    /\ \A a \in 1..Len(heap) : StrictlyAscending(heap[a].cmdAliasNames)
    /\ \A k \in DOMAIN commands : k \in Range(commandNames)

\* Registrations have returned that put a name in front of an earlier one and gave
\* a command two alias names.
C33_Witness ==
    /\ \A t \in Threads : pc[t] = "idle"
    /\ Len(commandNames) >= 2
    /\ \E a \in 1..Len(heap) : Len(heap[a].cmdAliasNames) >= 2
    /\ Cardinality(DOMAIN commands) >= 2

\* Thread t ends a HandleCommand call with this step.
HandleCommandEnds(t) == pc[t] = "hc_body" /\ pc'[t] = "idle"

\* C34 as stated: the entry that HandleCommand inserts into the command-name list
\* is the name in the case the caller wrote it in.
C34_OriginalCaseInNames ==
    [][\A t \in Threads :
          HandleCommandEnds(t) => frame[t].cmd.CmdName \in Range(commandNames')]_vars

\* C34, amended: the entry that HandleCommand inserts into the command-name list is
\* the lower-cased name, the same string as the key of the exact-command map, so the
\* list only holds lower-case strings; the name as the caller wrote it is kept in
\* the document stored under the key.
C34_LowerCaseInNames ==
    /\ [][\A t \in Threads :
            HandleCommandEnds(t) =>
                LET lowerName == ToLower(frame[t].cmd.CmdName) IN
                /\ Range(commandNames') = Range(commandNames) \cup {lowerName}
                /\ lowerName \in DOMAIN commands'
                /\ heap'[commands'[lowerName]].CmdName = frame[t].cmd.CmdName]_vars
    /\ [](\A i \in 1..Len(commandNames) : commandNames[i] = ToLower(commandNames[i]))

\* HandleCommand has returned for a name with an upper-case letter: the command
\* names hold its lower-case form only, the document holds the name as written.
C34_Witness ==
    /\ \A t \in Threads : pc[t] = "idle"
    /\ S_thanks \in DOMAIN commands
    /\ heap[commands[S_thanks]].CmdName = S_Thanks
    /\ S_thanks \in Range(commandNames)
    /\ S_Thanks \notin Range(commandNames)

\* The handlers that the registry holds: those of the exact commands, of the regexp
\* commands, of the free patterns, and the default handler when it is set.
RegisteredHandlers ==
    {heap[commands[k]].CmdHandler : k \in DOMAIN commands}
        \cup {heap[regexpCommands[i]].CmdHandler : i \in 1..Len(regexpCommands)}
        \cup {patterns[i].handle : i \in 1..Len(patterns)}
        \cup (IF defaultHandler # NilHandler THEN {defaultHandler} ELSE {})

\* C35: a ProcessMessage call invokes at most one handler, and at most once; the
\* handler is one that the registry holds, as an exact command, a regexp command,
\* the default handler or a free pattern.
C35_AtMostOneHandler ==
    \A t \in Threads :
        Dispatched(t) =>
            /\ Len(frame[t].calls) <= 1
            /\ \A i \in 1..Len(frame[t].calls) :
                  frame[t].calls[i].handler \in RegisteredHandlers

\* ProcessMessage has invoked the handler of an exact command, and only it, in a
\* registry that also holds a regexp command matching the command's key and a
\* default handler.
C35_Witness ==
    \E t \in Threads :
        /\ Dispatched(t)
        /\ Len(frame[t].calls) = 1
        /\ frame[t].calls[1].via = "command"
        /\ defaultHandler # NilHandler
        /\ \E k \in DOMAIN commands :
              /\ heap[commands[k]].CmdHandler = frame[t].calls[1].handler
              /\ findCommandRegexp(k) # 0

\* The exact command under key a is an alias made from the document od: hidden, named
\* by one of od's alias names, with od's handler, description and usage.
AliasMadeFrom(a, od) ==
    /\ heap[commands[a]].CmdIsHidden
    /\ heap[commands[a]].CmdName \in Range(od.cmdAliasNames)
    /\ heap[commands[a]].CmdHandler = od.CmdHandler
    /\ heap[commands[a]].CmdDescription = od.CmdDescription
    /\ heap[commands[a]].CmdUsage = od.CmdUsage

\* Thread t ends, with this step, a HandleCommand call made by the caller for a name
\* that is registered already, with a handler that is not the registered one.
Reregisters(t) ==
    /\ HandleCommandEnds(t)
    /\ frame[t].originalName = <<>>
    /\ ToLower(frame[t].cmd.CmdName) \in DOMAIN commands
    /\ frame[t].cmd.CmdHandler # heap[commands[ToLower(frame[t].cmd.CmdName)]].CmdHandler

\* C36: when HandleCommand registers a name again, with a new handler, every alias
\* made from the earlier command keeps the earlier handler, description and usage;
\* the new entry has an empty alias-name list, so AddAliasName accepts each of the
\* earlier alias names for it and a HandleCommandAlias call for a name not in the
\* list goes on to HandleCommand.  A message that names an alias invokes the handler
\* its entry holds.
C36_AliasKeepsCapturedHandler ==
    /\ [][\A t \in Threads :
            Reregisters(t) =>
                LET o == ToLower(frame[t].cmd.CmdName)
                    od == heap[commands[o]]
                IN  /\ heap'[commands'[o]].CmdHandler = frame[t].cmd.CmdHandler
                    /\ heap'[commands'[o]].cmdAliasNames = <<>>
                    /\ \A n \in Range(od.cmdAliasNames) : AddAliasName(heap'[commands'[o]], n)[1]
                    /\ \A a \in DOMAIN commands \ {o} :
                          AliasMadeFrom(a, od) =>
                              /\ a \in DOMAIN commands'
                              /\ heap'[commands'[a]].CmdHandler = od.CmdHandler
                              /\ heap'[commands'[a]].CmdDescription = od.CmdDescription
                              /\ heap'[commands'[a]].CmdUsage = od.CmdUsage
                              /\ heap'[commands'[a]].CmdIsHidden]_vars
    /\ [][\A t \in Threads :
            (/\ pc[t] = "hca_body" /\ pc'[t] # pc[t]
             /\ ToLower(frame[t].originalName) \in DOMAIN commands
             /\ ToLower(frame[t].originalName) # ToLower(frame[t].aliasName)
             /\ frame[t].aliasName
                   \notin Range(heap[commands[ToLower(frame[t].originalName)]].cmdAliasNames)) =>
                pc'[t] = "hc_lock"]_vars
    /\ [](\A t \in Threads :
            (Dispatched(t) /\ Addressed(frame[t].m) /\ ExactMatch(frame[t].m)) =>
                \A a \in {ToLower(Tokens(frame[t].m)[1])} :
                    heap[commands[a]].CmdIsHidden =>
                        /\ Len(frame[t].calls) = 1
                        /\ frame[t].calls[1].handler = heap[commands[a]].CmdHandler)

\* The command thanks was registered, given the alias thx and registered again: a
\* message that names thx has invoked the handler of the first registration, which
\* is not the handler thanks has now, and thanks has no alias names.
C36_Witness ==
    \E t \in Threads :
        /\ Dispatched(t) /\ Addressed(frame[t].m)
        /\ Tokens(frame[t].m) # <<>>
        /\ ToLower(Tokens(frame[t].m)[1]) = S_thx
        /\ S_thx \in DOMAIN commands /\ S_thanks \in DOMAIN commands
        /\ heap[commands[S_thx]].CmdIsHidden
        /\ Len(frame[t].calls) = 1
        /\ frame[t].calls[1].handler = heap[commands[S_thx]].CmdHandler
        /\ heap[commands[S_thanks]].CmdHandler > heap[commands[S_thx]].CmdHandler
        /\ heap[commands[S_thanks]].cmdAliasNames = <<>>
        /\ \E a \in 1..Len(heap) :
              /\ heap[a].CmdHandler = heap[commands[S_thx]].CmdHandler
              /\ S_thx \in Range(heap[a].cmdAliasNames)

\* Thread t is in HandleCommandAlias under the lock for an existing original and an
\* alias name, not yet among the original's, whose lower-case form is the key of
\* another exact command.
AliasOverCommand(t) ==
    /\ pc[t] = "hca_body"
    /\ ToLower(frame[t].originalName) \in DOMAIN commands
    /\ ToLower(frame[t].aliasName) \in DOMAIN commands
    /\ ToLower(frame[t].aliasName) # ToLower(frame[t].originalName)
    /\ frame[t].aliasName
          \notin Range(heap[commands[ToLower(frame[t].originalName)]].cmdAliasNames)

\* The names that help without arguments lists.
ListedNames == {showAllEntries(1)[i][1] : i \in 1..Len(showAllEntries(1))}

\* C37: HandleCommandAlias for an alias name whose lower-case form is the key of
\* another exact command is not rejected: it goes on to HandleCommand, and when that
\* call ends the key maps to a hidden command named after the alias that has the
\* original's handler, description and usage.  A message naming a key that holds
\* such a clone invokes the original's handler, and the help listing names no
\* hidden command.
C37_AliasReplacesCommand ==
    /\ [][\A t \in Threads :
            /\ (AliasOverCommand(t) /\ pc'[t] # pc[t]) =>
                  (pc'[t] = "hc_lock" /\ Alive' /\ commands' = commands)
            /\ (HandleCommandEnds(t) /\ frame[t].originalName # <<>>) =>
                  \A a \in {ToLower(frame[t].aliasName)}, o \in {ToLower(frame[t].originalName)} :
                      /\ a \in DOMAIN commands' /\ o \in DOMAIN commands'
                      /\ commands'[a] > Len(heap)
                      /\ heap'[commands'[a]].CmdIsHidden
                      /\ heap'[commands'[a]].CmdName = frame[t].aliasName
                      /\ heap'[commands'[a]].CmdHandler = heap'[commands'[o]].CmdHandler
                      /\ heap'[commands'[a]].CmdDescription = heap'[commands'[o]].CmdDescription
                      /\ heap'[commands'[a]].CmdUsage = heap'[commands'[o]].CmdUsage]_vars
    /\ [](\A t \in Threads :
            (Dispatched(t) /\ Addressed(frame[t].m) /\ ExactMatch(frame[t].m)) =>
                \A a \in {ToLower(Tokens(frame[t].m)[1])}, o \in DOMAIN commands :
                    AliasOf(heap[commands[a]].CmdName, o) =>
                        (/\ Len(frame[t].calls) = 1
                         /\ frame[t].calls[1].handler = heap[commands[o]].CmdHandler))
    /\ [](\A k \in DOMAIN commands :
            heap[commands[k]].CmdIsHidden => heap[commands[k]].CmdName \notin ListedNames)

\* The command thx was registered by the caller, not hidden, and then made an alias
\* of thanks: the key thx holds the hidden clone, help would not list thx, and a
\* message that names thx has invoked the handler of thanks.
C37_Witness ==
    \E t \in Threads :
        /\ Dispatched(t) /\ Addressed(frame[t].m)
        /\ Tokens(frame[t].m) # <<>>
        /\ ToLower(Tokens(frame[t].m)[1]) = S_thx
        /\ S_thx \in DOMAIN commands /\ S_thanks \in DOMAIN commands
        /\ \E b \in 1..Len(heap) :
              /\ b # commands[S_thx]
              /\ heap[b].CmdName = S_thx /\ ~heap[b].CmdIsHidden
        /\ heap[commands[S_thx]].CmdIsHidden
        /\ S_thx \notin ListedNames
        /\ Len(frame[t].calls) = 1
        /\ frame[t].calls[1].handler = heap[commands[S_thanks]].CmdHandler

\* Thread t is in a HandleCommand call that a handler made.
RegisteringInHandler(t) == pc[t] \in {"hc_lock", "hc_body"} /\ frame[t].inHandler

\* C38, the part on returning: while the process lives and no returned call has kept
\* the lock, a HandleCommand call made by a handler that ProcessMessage invoked can
\* take its next step (it does not wait for ever).
C38_HandlerRegistrationReturns ==
    \A t \in Threads :
        (Alive /\ NoLockLeft /\ RegisteringInHandler(t)) =>
            ENABLED (HandleCommand_Lock(t) \/ HandleCommand_Body(t))

\* The messages the receive loop has handed to ProcessMessage, by their ids.
SpawnedIds == {run.spawned[i].id : i \in 1..Len(run.spawned)}

\* C39: whatever the configured name, with upper-case letters or without, a received
\* message whose user's name is the bot's name, compared without regard to case, is
\* not passed to ProcessMessage; and every other received message is passed to
\* ProcessMessage once, on a goroutine of its own.
C39_OwnMessagesNotDispatched ==
    /\ [](\A i \in 1..Len(run.spawned) :
            ToLower(run.spawned[i].user) # ToLower(robot.name))
    /\ [](\A i, j \in 1..Len(run.spawned) :
            run.spawned[i].id = run.spawned[j].id => i = j)
    /\ [][(run.loop = "got" /\ run'.loop # "got") =>
            (run'.spawned =
                IF ToLower(run.m.user) # ToLower(robot.name)
                THEN Append(run.spawned, run.m) ELSE run.spawned)]_vars

\* C40: however Stop and the Receive calls of the transport interleave, no Receive
\* call panics on the closed channel incoming, a Receive call that waits at its send
\* has a receive loop that can still take it, and no message is passed to
\* ProcessMessage once the loop has taken the stop case.
C40_StopSafeForReceive ==
    /\ [](\A p \in Transport : run.recv[p].pc # "panic")
    /\ [](\A p \in Transport :
            (run.recv[p].pc = "send" /\ run.loop # "none") =>
                (run.loop \in {"select", "got"} /\ robot.incoming = "open"))
    /\ [][run.loop = "done" => run'.spawned = run.spawned]_vars

====
